---- MODULE Spec2Model ----
(***************************************************************************)
(* Model of the RT1M chatbot core: the Sanitizer (security.py), the Router *)
(* (chat_router.py), the General Responder (general_chat.py), the          *)
(* Personalized Responder (chat_model.py) and the Orchestrator             *)
(* (smart_chat.py).                                                        *)
(*                                                                         *)
(* Python values are records tagged with their kind.  A Python str is     *)
(* [kind |-> "str", str |-> <<c1, ..., cn>>], a tuple of one-character     *)
(* strings, so that len(), strip(), lower(), slicing and the regular       *)
(* expressions of SENSITIVE_PATTERNS are computed character by character.  *)
(***************************************************************************)
EXTENDS Integers, Sequences, FiniteSets, TLC

VARIABLES
    pc,                 \* position of the operation in progress
    op,                 \* the public function that was called
    args,               \* its arguments
    ret,                \* what it returned or raised
    log,                \* event types handed to log_security_event, in order
    calls,              \* how often each component / the LLM collaborator ran
    routing_decision,   \* smart_chat_invoke's local routing_decision
    general_response,   \* smart_chat_invoke's local general_response
    full_response,      \* smart_chat_invoke's local full_response
    llm,                \* what the LLM collaborator did in each chain.invoke
    store,              \* the profile store: the profile it holds, the requests it got
    twin,               \* the first of two smart_chat_invoke calls with the same message
    handlers            \* the handle_chat_message calls under way, per caller

vars == <<pc, op, args, ret, log, calls, routing_decision, general_response,
          full_response, llm, store, twin, handlers>>

----------------------------------------------------------------------------
(* Bounds of the model.                                                    *)

\* longest text enumerated exhaustively over SmallAlphabet
MaxLen == 3
\* most whitespace put around a generated body
MaxPad == 2

----------------------------------------------------------------------------
(* Security configuration, security.py:16-20.                              *)

MAX_INPUT_LENGTH == 2000
MAX_JSON_SIZE == 10000
MAX_ARRAY_LENGTH == 50
MAX_STRING_LENGTH == 1000
\* sanitize_dict: clean_key = sanitize_string(str(key), 100)
MAX_KEY_LENGTH == 100
\* \b[A-Za-z0-9]{20,}\b
LONG_RUN_LENGTH == 20

----------------------------------------------------------------------------
(* Characters and strings.                                                 *)

LOWER == <<"a","b","c","d","e","f","g","h","i","j","k","l","m","n","o","p","q","r","s","t","u","v","w","x","y","z">>
UPPER == <<"A","B","C","D","E","F","G","H","I","J","K","L","M","N","O","P","Q","R","S","T","U","V","W","X","Y","Z">>
DIGITS == <<"0","1","2","3","4","5","6","7","8","9">>

LowerSet == {LOWER[i] : i \in 1..26}
UpperSet == {UPPER[i] : i \in 1..26}
DigitSet == {DIGITS[i] : i \in 1..10}

\* str.isspace / regex \s, over the characters the model uses
IsSpace(c) == c \in {" ", "\t", "\n"}
IsDigit(c) == c \in DigitSet
\* [A-Za-z0-9]
IsAlnum(c) == c \in LowerSet \cup UpperSet \cup DigitSet
\* regex \w
IsWord(c) == IsAlnum(c) \/ c = "_"
\* [A-Za-z0-9\-_]
IsTokenChar(c) == IsAlnum(c) \/ c = "-" \/ c = "_"

LowerChar(c) ==
    IF c \in UpperSet THEN LOWER[CHOOSE i \in 1..26 : UPPER[i] = c] ELSE c

\* the sequence f[1], ..., f[n] as a tuple
AsTuple(f, n) == SubSeq(f, 1, n)

RECURSIVE PyEq(_, _)
\* a == b: numbers and bools compare by value, whatever their type; lists
\* and tuples element by element, a list never equal to a tuple; dicts item
\* by item whatever the order of insertion; models field by field; a str
\* with a str, None with None
PyEq(a, b) ==
    LET number(v) == v.kind \in {"int", "float", "bool"}
        value(v) == IF v.kind = "bool" THEN (IF v.bool THEN 1 ELSE 0) ELSE v.num
    IN IF number(a) /\ number(b) THEN value(a) = value(b)
       ELSE IF a.kind # b.kind THEN FALSE
       ELSE IF a.kind \in {"list", "tuple"}
       THEN /\ Len(a.elems) = Len(b.elems)
            /\ \A i \in 1..Len(a.elems) : PyEq(a.elems[i], b.elems[i])
       ELSE IF a.kind = "dict"
       THEN /\ Len(a.items) = Len(b.items)
            /\ \A i \in 1..Len(a.items) :
                  \E j \in 1..Len(b.items) :
                     PyEq(a.items[i].k, b.items[j].k) /\ PyEq(a.items[i].v, b.items[j].v)
       ELSE IF a.kind = "object"
       THEN /\ Len(a.attrs) = Len(b.attrs)
            /\ \A i \in 1..Len(a.attrs) :
                  a.attrs[i].k = b.attrs[i].k /\ PyEq(a.attrs[i].v, b.attrs[i].v)
       ELSE a = b

\* key in d: a key is found by ==
HasKey(d, key) == \E i \in 1..Len(d.items) : PyEq(d.items[i].k, key)

\* the one element of a set of one element
Only(S) == CHOOSE x \in S : TRUE

\* str.lower()
lower(s) == AsTuple([i \in 1..Len(s) |-> LowerChar(s[i])], Len(s))

\* c * n
Rep(c, n) == AsTuple([i \in 1..n |-> c], n)

\* str.strip(): drop leading and trailing whitespace
strip(s) ==
    IF \A i \in 1..Len(s) : IsSpace(s[i]) THEN <<>>
    ELSE LET first == CHOOSE i \in 1..Len(s) :
                          ~IsSpace(s[i]) /\ \A j \in 1..(i-1) : IsSpace(s[j])
             last  == CHOOSE i \in 1..Len(s) :
                          ~IsSpace(s[i]) /\ \A j \in (i+1)..Len(s) : IsSpace(s[j])
         IN SubSeq(s, first, last)

\* p occurs in s at position i
At(s, i, p) ==
    /\ i >= 1
    /\ i + Len(p) - 1 <= Len(s)
    /\ \A k \in 1..Len(p) : s[i + k - 1] = p[k]

\* "p in s"
Contains(s, p) == \E i \in 1..(Len(s) - Len(p) + 1) : At(s, i, p)

\* regex \b before position i, s[i] being a word character
WordStart(s, i) == i = 1 \/ ~IsWord(s[i - 1])
\* regex \b after position j, s[j] being a word character
WordEnd(s, j) == j = Len(s) \/ ~IsWord(s[j + 1])
\* "." matches everything but a newline
NoNewline(s, a, b) == \A k \in a..b : s[k] # "\n"

\* p occurs in s as \bp\b
ContainsWord(s, p) ==
    \E i \in 1..(Len(s) - Len(p) + 1) :
        At(s, i, p) /\ WordStart(s, i) /\ WordEnd(s, i + Len(p) - 1)

----------------------------------------------------------------------------
(* SENSITIVE_PATTERNS, security.py:23-35.  Every pattern is searched with  *)
(* re.IGNORECASE, so each operator is given the lower-cased text.          *)

KEYWORDS ==
    { <<"a","p","i","k","e","y">>,
      <<"a","p","i","_","k","e","y">>,
      <<"a","p","i","-","k","e","y">>,
      <<"s","e","c","r","e","t">>,
      <<"p","a","s","s","w","o","r","d">>,
      <<"t","o","k","e","n">>,
      <<"c","r","e","d","e","n","t","i","a","l">>,
      <<"a","u","t","h","t","o","k","e","n">>,
      <<"a","u","t","h","_","t","o","k","e","n">>,
      <<"a","u","t","h","-","t","o","k","e","n">> }

\* \b(?:api[_-]?key|secret|password|token|credential|auth[_-]?token)\b
PatternKeyword(s) == \E w \in KEYWORDS : ContainsWord(s, w)

\* \b[A-Za-z0-9]{20,}\b : a maximal run of at least 20 letters and digits
\* that no "_" touches
PatternLongRun(s) ==
    \E i \in 1..(Len(s) - LONG_RUN_LENGTH + 1) :
        /\ IsAlnum(s[i])
        /\ WordStart(s, i)
        /\ \A k \in i..(i + LONG_RUN_LENGTH - 1) : IsAlnum(s[k])
        /\ \E j \in (i + LONG_RUN_LENGTH - 1)..Len(s) :
              /\ WordEnd(s, j)
              /\ \A k \in i..j : IsAlnum(s[k])

\* \$\{.*?\}
PatternEnvVar(s) ==
    \E i \in 1..Len(s) :
        /\ At(s, i, <<"$","{">>)
        /\ \E j \in (i + 2)..Len(s) : s[j] = "}" /\ NoNewline(s, i + 2, j - 1)

\* -----BEGIN.*?-----
PatternCertificate(s) ==
    \E i \in 1..Len(s) :
        /\ At(s, i, <<"-","-","-","-","-","b","e","g","i","n">>)
        /\ \E j \in (i + 10)..Len(s) :
              At(s, j, <<"-","-","-","-","-">>) /\ NoNewline(s, i + 10, j - 1)

\* Bearer\s+[A-Za-z0-9\-_]+
PatternBearer(s) ==
    \E i \in 1..Len(s) :
        /\ At(s, i, <<"b","e","a","r","e","r">>)
        /\ \E j \in (i + 6)..(Len(s) - 1) :
              /\ IsTokenChar(s[j + 1])
              /\ \A k \in (i + 6)..j : IsSpace(s[k])

\* <script.*?>.*?</script>
PatternScript(s) ==
    \E i \in 1..Len(s) :
        /\ At(s, i, <<"<","s","c","r","i","p","t">>)
        /\ \E j \in (i + 7)..Len(s) :
              /\ s[j] = ">"
              /\ NoNewline(s, i + 7, j - 1)
              /\ \E k \in (j + 1)..Len(s) :
                    /\ At(s, k, <<"<","/","s","c","r","i","p","t",">">>)
                    /\ NoNewline(s, j + 1, k - 1)

\* javascript:
PatternJavascript(s) == Contains(s, <<"j","a","v","a","s","c","r","i","p","t",":">>)

\* data:.*?base64
PatternDataUrl(s) ==
    \E i \in 1..Len(s) :
        /\ At(s, i, <<"d","a","t","a",":">>)
        /\ \E j \in (i + 5)..Len(s) :
              At(s, j, <<"b","a","s","e","6","4">>) /\ NoNewline(s, i + 5, j - 1)

\* file:\/\/
PatternFileUrl(s) == Contains(s, <<"f","i","l","e",":","/","/">>)

\* localhost:\d+
PatternLocalhost(s) ==
    \E i \in 1..Len(s) :
        /\ At(s, i, <<"l","o","c","a","l","h","o","s","t",":">>)
        /\ i + 10 <= Len(s)
        /\ IsDigit(s[i + 10])

\* \b(?:127\.0\.0\.1|0\.0\.0\.0)\b
PatternLocalIp(s) ==
    \/ ContainsWord(s, <<"1","2","7",".","0",".","0",".","1">>)
    \/ ContainsWord(s, <<"0",".","0",".","0",".","0">>)

\* any(re.search(pattern, text, re.IGNORECASE) for pattern in SENSITIVE_PATTERNS)
MatchesSensitivePattern(text) ==
    LET s == lower(text)
    IN \/ PatternKeyword(s)
       \/ PatternLongRun(s)
       \/ PatternEnvVar(s)
       \/ PatternCertificate(s)
       \/ PatternBearer(s)
       \/ PatternScript(s)
       \/ PatternJavascript(s)
       \/ PatternDataUrl(s)
       \/ PatternFileUrl(s)
       \/ PatternLocalhost(s)
       \/ PatternLocalIp(s)

\* security.py:38-49
BANNED_PHRASES ==
    { <<"i","n","t","e","r","n","a","l"," ","e","r","r","o","r">>,
      <<"s","t","a","c","k"," ","t","r","a","c","e">>,
      <<"d","e","b","u","g">>,
      <<"c","o","n","s","o","l","e",".","l","o","g">>,
      <<"p","r","i","n","t","(">>,
      <<"e","r","r","o","r",":">>,
      <<"e","x","c","e","p","t","i","o","n",":">>,
      <<"t","r","a","c","e","b","a","c","k">>,
      <<"s","q","l"," ","e","r","r","o","r">>,
      <<"d","a","t","a","b","a","s","e"," ","e","r","r","o","r">> }

\* any(phrase.lower() in text.lower() for phrase in BANNED_PHRASES)
ContainsBannedPhrase(text) ==
    LET s == lower(text)
    IN \E p \in BANNED_PHRASES : Contains(s, p)

----------------------------------------------------------------------------
(* Python values and results.                                              *)

PyStr(s) == [kind |-> "str", str |-> s]
PyInt(n) == [kind |-> "int", num |-> n]
\* a float with the integral value n, written n.0
PyFloat(n) == [kind |-> "float", num |-> n]
PyBool(b) == [kind |-> "bool", bool |-> b]
PyNone == [kind |-> "none"]
PyList(xs) == [kind |-> "list", elems |-> xs]
\* a dict is the sequence of its items, in insertion order
PyDict(items) == [kind |-> "dict", items |-> items]
PyTuple(xs) == [kind |-> "tuple", elems |-> xs]

\* an instance of a pydantic model with these fields: it has no get()
PyObject(items) == [kind |-> "object", attrs |-> items]

\* a call returned v
Ok(v) == [ok |-> TRUE, val |-> v]
\* a call raised SecurityViolationError
Violation(why) == [ok |-> FALSE, why |-> why]
\* a call raised another Exception, of this type
Raised(type) == [ok |-> FALSE, exc |-> type]
\* r is a raised SecurityViolationError
IsViolation(r) == ~r.ok /\ "why" \in DOMAIN r

----------------------------------------------------------------------------
(* sanitize_string, security.py:55-73.                                     *)

\* sanitize_string cutting an over-long text to max_length instead of raising
sanitize_string_truncate(text, max_length) ==
    IF text.kind # "str" THEN Violation("not_string")
    ELSE IF MatchesSensitivePattern(text.str) THEN Violation("sensitive")
    ELSE IF ContainsBannedPhrase(text.str) THEN Violation("banned")
    ELSE IF Len(text.str) > max_length
    THEN Ok(PyStr(strip(SubSeq(text.str, 1, max_length))))
    ELSE Ok(PyStr(strip(text.str)))

sanitize_string(text, max_length) ==
    IF text.kind # "str" THEN Violation("not_string")
    ELSE IF Len(text.str) > max_length THEN Violation("too_long")
    ELSE IF MatchesSensitivePattern(text.str) THEN Violation("sensitive")
    ELSE IF ContainsBannedPhrase(text.str) THEN Violation("banned")
    ELSE Ok(PyStr(strip(text.str)))

----------------------------------------------------------------------------
(* str() and json.dumps(..., default=str) of the values the model uses.    *)

RECURSIVE IntToStr(_)
\* str(n) of an int
IntToStr(n) ==
    IF n < 0 THEN <<"-">> \o IntToStr(0 - n)
    ELSE IF n < 10 THEN <<DIGITS[n + 1]>>
    ELSE IntToStr(n \div 10) \o <<DIGITS[(n % 10) + 1]>>

RECURSIVE JoinInts(_)
\* ", ".join(repr(n) for n in xs)
JoinInts(xs) ==
    IF Len(xs) = 0 THEN <<>>
    ELSE IF Len(xs) = 1 THEN IntToStr(xs[1].num)
    ELSE IntToStr(xs[1].num) \o <<",", " ">> \o JoinInts(Tail(xs))

\* str(value): of a str, an int, a bool, None and a tuple of ints
PyStrOf(v) ==
    CASE v.kind = "str" -> v.str
      [] v.kind = "int" -> IntToStr(v.num)
      [] v.kind = "bool" -> IF v.bool THEN <<"T","r","u","e">> ELSE <<"F","a","l","s","e">>
      [] v.kind = "none" -> <<"N","o","n","e">>
      [] v.kind = "tuple" ->
            IF Len(v.elems) = 1 THEN <<"(">> \o IntToStr(v.elems[1].num) \o <<",", ")">>
            ELSE <<"(">> \o JoinInts(v.elems) \o <<")">>

\* characters json.dumps writes for one character of a string
JsonCharLen(c) == IF c \in {"\n", "\t", "\"", "\\"} THEN 2 ELSE 1

\* len(json.dumps(s)) of a str: the quotes, and each character as written
JsonStrLen(s) == 2 + Len(s) + Cardinality({i \in 1..Len(s) : JsonCharLen(s[i]) = 2})

RECURSIVE JsonLen(_), JsonSeqLen(_), JsonItemsLen(_)
\* len(json.dumps(v, default=str)): a tuple is written as an array, a key
\* that is no str is written as its quoted str()
JsonLen(v) ==
    CASE v.kind = "str" -> JsonStrLen(v.str)
      [] v.kind = "int" -> Len(IntToStr(v.num))
      [] v.kind = "float" -> Len(IntToStr(v.num)) + 2
      [] v.kind = "bool" -> IF v.bool THEN 4 ELSE 5
      [] v.kind = "none" -> 4
      [] v.kind \in {"list", "tuple"} -> 2 + JsonSeqLen(v.elems)
      [] v.kind = "dict" -> 2 + JsonItemsLen(v.items)

\* the elements of an array, separated by ", "
JsonSeqLen(xs) ==
    IF Len(xs) = 0 THEN 0
    ELSE JsonLen(Head(xs)) + (IF Len(xs) > 1 THEN 2 ELSE 0) + JsonSeqLen(Tail(xs))

\* "key": value pairs, separated by ", "
JsonItemsLen(items) ==
    IF Len(items) = 0 THEN 0
    ELSE JsonStrLen(PyStrOf(Head(items).k)) + 2 + JsonLen(Head(items).v)
         + (IF Len(items) > 1 THEN 2 ELSE 0) + JsonItemsLen(Tail(items))

----------------------------------------------------------------------------
(* sanitize_dict and sanitize_list, security.py:75-132.                    *)

\* sanitized[clean_key] = clean_value: an item whose key equals the key keeps
\* its key and its place
DictSet(items, key, value) ==
    IF \E i \in 1..Len(items) : PyEq(items[i].k, key)
    THEN [i \in 1..Len(items) |->
            IF PyEq(items[i].k, key) THEN [k |-> items[i].k, v |-> value] ELSE items[i]]
    ELSE Append(items, [k |-> key, v |-> value])

RECURSIVE sanitize_dict(_, _), sanitize_list(_), SanitizeItems(_, _, _), SanitizeElems(_, _)

\* security.py:91-103: the value of one item, by its type
SanitizeDictValue(value, max_size) ==
    CASE value.kind = "str" -> sanitize_string(value, MAX_STRING_LENGTH)
      [] value.kind = "dict" -> sanitize_dict(value, max_size \div 2)
      [] value.kind = "list" -> sanitize_list(value)
      [] value.kind \in {"int", "float", "bool"} -> Ok(value)
      [] value.kind = "none" -> Ok(value)
      [] OTHER -> sanitize_string(PyStr(PyStrOf(value)), MAX_STRING_LENGTH)

\* security.py:119-130: one element of a list, by its type
SanitizeListItem(item) ==
    CASE item.kind = "str" -> sanitize_string(item, MAX_STRING_LENGTH)
      [] item.kind = "dict" -> sanitize_dict(item, MAX_JSON_SIZE)
      [] item.kind = "list" -> sanitize_list(item)
      [] item.kind \in {"int", "float", "bool"} -> Ok(item)
      [] item.kind = "none" -> Ok(item)
      [] OTHER -> sanitize_string(PyStr(PyStrOf(item)), MAX_STRING_LENGTH)

\* security.py:86-105: the loop over data.items(), sanitized so far in acc;
\* the first violation ends it
SanitizeItems(items, max_size, acc) ==
    IF Len(items) = 0 THEN Ok(PyDict(acc))
    ELSE LET clean_key == sanitize_string(PyStr(PyStrOf(Head(items).k)), MAX_KEY_LENGTH)
         IN IF ~clean_key.ok THEN clean_key
            ELSE LET clean_value == SanitizeDictValue(Head(items).v, max_size)
                 IN IF ~clean_value.ok THEN clean_value
                    ELSE SanitizeItems(Tail(items), max_size,
                                       DictSet(acc, clean_key.val, clean_value.val))

sanitize_dict(data, max_size) ==
    IF data.kind # "dict" THEN Violation("not_dict")
    ELSE IF JsonLen(data) > max_size THEN Violation("too_large")
    ELSE SanitizeItems(data.items, max_size, <<>>)

\* security.py:117-130: the loop over the list
SanitizeElems(xs, acc) ==
    IF Len(xs) = 0 THEN Ok(PyList(acc))
    ELSE LET clean == SanitizeListItem(Head(xs))
         IN IF ~clean.ok THEN clean
            ELSE SanitizeElems(Tail(xs), Append(acc, clean.val))

sanitize_list(data) ==
    IF data.kind # "list" THEN Violation("not_list")
    ELSE IF Len(data.elems) > MAX_ARRAY_LENGTH THEN Violation("too_long")
    ELSE SanitizeElems(data.elems, <<>>)

----------------------------------------------------------------------------
(* Domain validators, security.py:192-219.                                 *)

KEY_AGE == PyStr(<<"a","g","e">>)
KEY_DEBT == PyStr(<<"d","e","b","t">>)
KEY_EXPENSES == PyStr(<<"e","x","p","e","n","s","e","s">>)

\* security.py:216
MAX_AGE == 150
\* security.py:202
MAX_FINANCIAL_VALUE == 1000000000

\* isinstance(value, (int, float)); a bool is an int
IsNumber(v) == v.kind \in {"int", "float", "bool"}
\* the number a numeric value compares as
NumberOf(v) == IF v.kind = "bool" THEN (IF v.bool THEN 1 ELSE 0) ELSE v.num

validate_financial_data(data) ==
    IF data.kind # "dict" THEN Violation("not_dict")
    ELSE IF \E i \in 1..Len(data.items) :
               /\ IsNumber(data.items[i].v)
               /\ \/ NumberOf(data.items[i].v) < 0 /\ data.items[i].k \notin {KEY_DEBT, KEY_EXPENSES}
                  \/ NumberOf(data.items[i].v) > MAX_FINANCIAL_VALUE
         THEN Violation("invalid_value")
    ELSE sanitize_dict(data, MAX_JSON_SIZE)

validate_personal_info(data) ==
    IF data.kind # "dict" THEN Violation("not_dict")
    ELSE IF \E i \in 1..Len(data.items) :
               /\ data.items[i].k = KEY_AGE
               /\ IsNumber(data.items[i].v)
               /\ (NumberOf(data.items[i].v) < 0 \/ NumberOf(data.items[i].v) > MAX_AGE)
         THEN Violation("invalid_age")
    ELSE sanitize_dict(data, MAX_JSON_SIZE)

----------------------------------------------------------------------------
(* The fixed messages.                                                     *)

\* "I apologize, but I'm having trouble processing your request. Please try rephrasing your question about financial planning."
\* (chat_router.py:86)
ROUTER_SAFE_RESPONSE ==
    <<"I"," ","a","p","o","l","o","g","i","z","e",","," ","b","u","t"," ","I","'","m"," ","h","a","v","i","n","g"," ","t","r","o","u","b","l","e"," ","p","r","o","c","e","s","s","i","n","g"," ","y","o","u","r"," ","r","e","q","u","e","s","t","."," ","P","l","e","a","s","e"," ","t","r","y"," ","r","e","p","h","r","a","s","i","n","g"," ","y","o","u","r"," ","q","u","e","s","t","i","o","n"," ","a","b","o","u","t"," ","f","i","n","a","n","c","i","a","l"," ","p","l","a","n","n","i","n","g",".">>

\* "I apologize, but I'm having trouble processing your request. Please try rephrasing your question about financial planning."
\* (general_chat.py:97)
GENERAL_SECURITY_FALLBACK ==
    <<"I"," ","a","p","o","l","o","g","i","z","e",","," ","b","u","t"," ","I","'","m"," ","h","a","v","i","n","g"," ","t","r","o","u","b","l","e"," ","p","r","o","c","e","s","s","i","n","g"," ","y","o","u","r"," ","r","e","q","u","e","s","t","."," ","P","l","e","a","s","e"," ","t","r","y"," ","r","e","p","h","r","a","s","i","n","g"," ","y","o","u","r"," ","q","u","e","s","t","i","o","n"," ","a","b","o","u","t"," ","f","i","n","a","n","c","i","a","l"," ","p","l","a","n","n","i","n","g",".">>

\* "I'm experiencing technical difficulties. For general financial advice, I'd recommend starting with creating a budget and setting clear financial goals."
\* (general_chat.py:103)
GENERAL_ERROR_FALLBACK ==
    <<"I","'","m"," ","e","x","p","e","r","i","e","n","c","i","n","g"," ","t","e","c","h","n","i","c","a","l"," ","d","i","f","f","i","c","u","l","t","i","e","s","."," ","F","o","r"," ","g","e","n","e","r","a","l"," ","f","i","n","a","n","c","i","a","l"," ","a","d","v","i","c","e",","," ","I","'","d"," ","r","e","c","o","m","m","e","n","d"," ","s","t","a","r","t","i","n","g"," ","w","i","t","h"," ","c","r","e","a","t","i","n","g"," ","a"," ","b","u","d","g","e","t"," ","a","n","d"," ","s","e","t","t","i","n","g"," ","c","l","e","a","r"," ","f","i","n","a","n","c","i","a","l"," ","g","o","a","l","s",".">>

\* "I'd be happy to provide personalized advice! To give you the best recommendations, could you share some details about your financial situation, goals, or what specific area you'd like help with?"
\* (smart_chat.py:74)
REQUEST_DETAILS_MESSAGE ==
    <<"I","'","d"," ","b","e"," ","h","a","p","p","y"," ","t","o"," ","p","r","o","v","i","d","e"," ","p","e","r","s","o","n","a","l","i","z","e","d"," ","a","d","v","i","c","e","!"," ","T","o"," ","g","i","v","e"," ","y","o","u"," ","t","h","e"," ","b","e","s","t"," ","r","e","c","o","m","m","e","n","d","a","t","i","o","n","s",","," ","c","o","u","l","d"," ","y","o","u"," ","s","h","a","r","e"," ","s","o","m","e"," ","d","e","t","a","i","l","s"," ","a","b","o","u","t"," ","y","o","u","r"," ","f","i","n","a","n","c","i","a","l"," ","s","i","t","u","a","t","i","o","n",","," ","g","o","a","l","s",","," ","o","r"," ","w","h","a","t"," ","s","p","e","c","i","f","i","c"," ","a","r","e","a"," ","y","o","u","'","d"," ","l","i","k","e"," ","h","e","l","p"," ","w","i","t","h","?">>

\* "I apologize, but I'm experiencing technical difficulties. Please try rephrasing your question about financial planning."
\* (smart_chat.py:94)
SMART_CHAT_FALLBACK ==
    <<"I"," ","a","p","o","l","o","g","i","z","e",","," ","b","u","t"," ","I","'","m"," ","e","x","p","e","r","i","e","n","c","i","n","g"," ","t","e","c","h","n","i","c","a","l"," ","d","i","f","f","i","c","u","l","t","i","e","s","."," ","P","l","e","a","s","e"," ","t","r","y"," ","r","e","p","h","r","a","s","i","n","g"," ","y","o","u","r"," ","q","u","e","s","t","i","o","n"," ","a","b","o","u","t"," ","f","i","n","a","n","c","i","a","l"," ","p","l","a","n","n","i","n","g",".">>

\* "I apologize, but I'm having trouble processing your request right now. Please try rephrasing your question about your financial planning."
\* (security.py:165-166)
SAFE_FALLBACK_MESSAGE ==
    <<"I"," ","a","p","o","l","o","g","i","z","e",","," ","b","u","t"," ","I","'","m"," ","h","a","v","i","n","g"," ","t","r","o","u","b","l","e"," ","p","r","o","c","e","s","s","i","n","g"," ","y","o","u","r"," ","r","e","q","u","e","s","t"," ","r","i","g","h","t"," ","n","o","w","."," ","P","l","e","a","s","e"," ","t","r","y"," ","r","e","p","h","r","a","s","i","n","g"," ","y","o","u","r"," ","q","u","e","s","t","i","o","n"," ","a","b","o","u","t"," ","y","o","u","r"," ","f","i","n","a","n","c","i","a","l"," ","p","l","a","n","n","i","n","g",".">>

\* "I apologize, but I'm experiencing technical difficulties. Please try again in a moment."
\* (chat_model.py:124)
CHAT_ERROR_MESSAGE ==
    <<"I"," ","a","p","o","l","o","g","i","z","e",","," ","b","u","t"," ","I","'","m"," ","e","x","p","e","r","i","e","n","c","i","n","g"," ","t","e","c","h","n","i","c","a","l"," ","d","i","f","f","i","c","u","l","t","i","e","s","."," ","P","l","e","a","s","e"," ","t","r","y"," ","a","g","a","i","n"," ","i","n"," ","a"," ","m","o","m","e","n","t",".">>

----------------------------------------------------------------------------
(* What the LLM collaborator does in one chain.invoke.                     *)

\* the call raised: a timeout, a quota or a network error
LLMError == [kind |-> "error"]
\* the call returned text the output parser rejects
LLMMalformed == [kind |-> "malformed"]
\* the call returned v: a parsed object, or the content of a message
LLMReturn(v) == [kind |-> "result", val |-> v]
\* the chain was not invoked
NotCalled == [kind |-> "not_called"]

----------------------------------------------------------------------------
(* Router, chat_router.py:61-96.  Every component below returns the value  *)
(* it returns, the event types it logged and the LLM calls it made.        *)

RouterDecision(needs_user_data, message_type, simple_response) ==
    [needs_user_data |-> needs_user_data,
     message_type |-> message_type,
     simple_response |-> simple_response]

\* route_chat_message with one handler for every exception: a security
\* violation is answered like any other failure
route_chat_message_fail_open(input_text, outcome) ==
    LET clean_input == sanitize_string(input_text, MAX_INPUT_LENGTH)
    IN IF ~clean_input.ok
       THEN [val |-> RouterDecision(TRUE, "general", <<>>),
             events |-> <<"router_error">>,
             llm_calls |-> 0]
       ELSE IF outcome.kind = "result"
       THEN [val |-> outcome.val, events |-> <<>>, llm_calls |-> 1]
       ELSE [val |-> RouterDecision(TRUE, "general", <<>>),
             events |-> <<"router_error">>,
             llm_calls |-> 1]

\* route_chat_message answering a failed LLM call with the safe decision of
\* the security handler
route_chat_message_fail_closed(input_text, outcome) ==
    LET clean_input == sanitize_string(input_text, MAX_INPUT_LENGTH)
    IN IF ~clean_input.ok
       THEN [val |-> RouterDecision(FALSE, "general", ROUTER_SAFE_RESPONSE),
             events |-> <<"router_security_violation">>,
             llm_calls |-> 0]
       ELSE IF outcome.kind = "result"
       THEN [val |-> outcome.val, events |-> <<>>, llm_calls |-> 1]
       ELSE [val |-> RouterDecision(FALSE, "general", ROUTER_SAFE_RESPONSE),
             events |-> <<"router_error">>,
             llm_calls |-> 1]

\* route_chat_message refusing a message without an answer of its own
route_chat_message_no_apology(input_text, outcome) ==
    LET clean_input == sanitize_string(input_text, MAX_INPUT_LENGTH)
    IN IF ~clean_input.ok
       THEN [val |-> RouterDecision(FALSE, "general", <<>>),
             events |-> <<"router_security_violation">>,
             llm_calls |-> 0]
       ELSE IF outcome.kind = "result"
       THEN [val |-> outcome.val, events |-> <<>>, llm_calls |-> 1]
       ELSE [val |-> RouterDecision(TRUE, "general", <<>>),
             events |-> <<"router_error">>,
             llm_calls |-> 1]

route_chat_message(input_text, outcome) ==
    LET clean_input == sanitize_string(input_text, MAX_INPUT_LENGTH)
    IN IF ~clean_input.ok
       THEN \* except SecurityViolationError
            [val |-> RouterDecision(FALSE, "general", ROUTER_SAFE_RESPONSE),
             events |-> <<"router_security_violation">>,
             llm_calls |-> 0]
       ELSE IF outcome.kind = "result"
       THEN [val |-> outcome.val, events |-> <<>>, llm_calls |-> 1]
       ELSE \* except Exception
            [val |-> RouterDecision(TRUE, "general", <<>>),
             events |-> <<"router_error">>,
             llm_calls |-> 1]

----------------------------------------------------------------------------
(* General Responder, general_chat.py:66-105.                              *)

\* general_chat.py:89
GENERAL_LIMIT == 1000

\* general_chat.py:89-90: content[:1000] + "..."
TruncateContent(content) ==
    IF Len(content) > GENERAL_LIMIT
    THEN SubSeq(content, 1, GENERAL_LIMIT) \o <<".", ".", ".">>
    ELSE content

\* get_general_advice with the same message in both handlers
get_general_advice_one_fallback(input_text, outcome) ==
    LET clean_input == sanitize_string(input_text, MAX_INPUT_LENGTH)
    IN IF ~clean_input.ok
       THEN [val |-> [message |-> GENERAL_SECURITY_FALLBACK],
             events |-> <<"general_chat_security_violation">>,
             llm_calls |-> 0]
       ELSE IF outcome.kind = "result" /\ outcome.val.kind = "str"
       THEN [val |-> [message |-> TruncateContent(outcome.val.str)],
             events |-> <<>>,
             llm_calls |-> 1]
       ELSE [val |-> [message |-> GENERAL_SECURITY_FALLBACK],
             events |-> <<"general_chat_error">>,
             llm_calls |-> 1]

get_general_advice(input_text, outcome) ==
    LET clean_input == sanitize_string(input_text, MAX_INPUT_LENGTH)
    IN IF ~clean_input.ok
       THEN \* except SecurityViolationError
            [val |-> [message |-> GENERAL_SECURITY_FALLBACK],
             events |-> <<"general_chat_security_violation">>,
             llm_calls |-> 0]
       ELSE IF outcome.kind = "result" /\ outcome.val.kind = "str"
       THEN [val |-> [message |-> TruncateContent(outcome.val.str)],
             events |-> <<>>,
             llm_calls |-> 1]
       ELSE \* except Exception: the call failed, or GeneralChatResponse
            \* rejects a content that is no str
            [val |-> [message |-> GENERAL_ERROR_FALLBACK],
             events |-> <<"general_chat_error">>,
             llm_calls |-> 1]

----------------------------------------------------------------------------
(* Personalized Responder, chat_model.py:77-126.                           *)

ChatResponse(message, personalInfo, financialInfo, goals) ==
    [message |-> message,
     personalInfo |-> personalInfo,
     financialInfo |-> financialInfo,
     goals |-> goals]

\* bool(value)
Truthy(v) ==
    CASE v.kind = "none" -> FALSE
      [] v.kind = "dict" -> Len(v.items) > 0
      [] v.kind \in {"list", "tuple"} -> Len(v.elems) > 0
      [] v.kind = "str" -> Len(v.str) > 0
      [] v.kind \in {"int", "float"} -> v.num # 0
      [] v.kind = "bool" -> v.bool
      [] OTHER -> TRUE

\* security.py:161-174: "message or <the default text>", a message that is
\* None (the default of the parameter) or empty gives the default text; the
\* three extraction fields are None
create_safe_fallback_response(message) ==
    ChatResponse(IF Truthy(message) THEN message.str ELSE SAFE_FALLBACK_MESSAGE,
                 PyNone, PyNone, PyNone)

\* hasattr(value, name)
HasAttr(value, name) == name \in DOMAIN value

\* secure_chat_invoke keeping the sections that were validated before a
\* later one was refused
secure_chat_invoke_partial(input_text, outcome) ==
    LET clean_input == sanitize_string(input_text, MAX_INPUT_LENGTH)
        result == outcome.val
        personal == IF Truthy(result.personalInfo)
                    THEN validate_personal_info(result.personalInfo)
                    ELSE Ok(result.personalInfo)
        financial == IF Truthy(result.financialInfo)
                     THEN validate_financial_data(result.financialInfo)
                     ELSE Ok(result.financialInfo)
        violation == [val |-> create_safe_fallback_response(PyNone),
                      events |-> <<"chat_security_violation">>,
                      llm_calls |-> IF clean_input.ok THEN 1 ELSE 0]
    IN IF ~clean_input.ok THEN violation
       ELSE IF outcome.kind # "result"
       THEN [val |-> create_safe_fallback_response(PyStr(CHAT_ERROR_MESSAGE)),
             events |-> <<"chat_error">>,
             llm_calls |-> 1]
       ELSE IF ~HasAttr(result, "message") THEN violation
       ELSE IF ~personal.ok THEN violation
       ELSE IF ~financial.ok
       THEN [val |-> ChatResponse(SAFE_FALLBACK_MESSAGE, personal.val, PyNone, PyNone),
             events |-> <<"chat_security_violation">>,
             llm_calls |-> 1]
       ELSE [val |-> ChatResponse(result.message, personal.val, financial.val, result.goals),
             events |-> <<>>,
             llm_calls |-> 1]

secure_chat_invoke(input_text, outcome) ==
    LET clean_input == sanitize_string(input_text, MAX_INPUT_LENGTH)
        result == outcome.val
        personal == IF Truthy(result.personalInfo)
                    THEN validate_personal_info(result.personalInfo)
                    ELSE Ok(result.personalInfo)
        financial == IF Truthy(result.financialInfo)
                     THEN validate_financial_data(result.financialInfo)
                     ELSE Ok(result.financialInfo)
        violation == [val |-> create_safe_fallback_response(PyNone),
                      events |-> <<"chat_security_violation">>,
                      llm_calls |-> IF clean_input.ok THEN 1 ELSE 0]
    IN IF ~clean_input.ok THEN violation
       ELSE IF outcome.kind # "result"
       THEN \* except Exception
            [val |-> create_safe_fallback_response(PyStr(CHAT_ERROR_MESSAGE)),
             events |-> <<"chat_error">>,
             llm_calls |-> 1]
       ELSE IF ~HasAttr(result, "message")
       THEN \* chat_model.py:92-93: raise SecurityViolationError
            violation
       ELSE IF ~personal.ok \/ ~financial.ok THEN violation
       ELSE [val |-> ChatResponse(result.message, personal.val, financial.val, result.goals),
             events |-> <<>>,
             llm_calls |-> 1]

----------------------------------------------------------------------------
(* Confidence score, firebase_integration_example.py:165-189.  A score is  *)
(* the fraction [num, den] in lowest terms.                                *)

RECURSIVE GCD(_, _)
GCD(a, b) == IF b = 0 THEN a ELSE GCD(b, a % b)

\* num / den, den > 0
Rat(num, den) ==
    LET g == GCD(IF num < 0 THEN 0 - num ELSE num, den)
    IN [num |-> num \div g, den |-> den \div g]

RatAdd(a, b) == Rat(a.num * b.den + b.num * a.den, a.den * b.den)
RatMul(a, b) == Rat(a.num * b.num, a.den * b.den)
RatLeq(a, b) == a.num * b.den <= b.num * a.den
RatLess(a, b) == a.num * b.den < b.num * a.den
RatMin(a, b) == IF RatLeq(a, b) THEN a ELSE b

\* dict.get(key): the value of the key, None without it
DictGet(d, key) ==
    IF HasKey(d, key)
    THEN d.items[CHOOSE i \in 1..Len(d.items) : PyEq(d.items[i].k, key)].v
    ELSE PyNone

\* len([v for v in info.values() if v])
TruthyValues(info) == Cardinality({i \in 1..Len(info.items) : Truthy(info.items[i].v)})

KEY_TITLE == PyStr(<<"t","i","t","l","e">>)
KEY_CATEGORY == PyStr(<<"c","a","t","e","g","o","r","y">>)

\* goal.get("title") and goal.get("category")
GoalHasTitleAndCategory(goal) ==
    Truthy(DictGet(goal, KEY_TITLE)) /\ Truthy(DictGet(goal, KEY_CATEGORY))

\* sum(1 for goal in goals if ...)
GoalsQuality(goals) ==
    Cardinality({i \in 1..Len(goals.elems) : GoalHasTitleAndCategory(goals.elems[i])})

\* extracted_data: the three sections, None for one that is absent
ExtractedData(personalInfo, financialInfo, goals) ==
    [personalInfo |-> personalInfo, financialInfo |-> financialInfo, goals |-> goals]

\* _calculate_confidence with "score =" for "score +="
calculate_confidence_overwrite(extracted_data) ==
    LET personal == extracted_data.personalInfo
        financial == extracted_data.financialInfo
        goals == extracted_data.goals
        s0 == Rat(0, 1)
        s1 == IF Truthy(personal)
              THEN RatMul(RatMin(Rat(TruthyValues(personal), 5), Rat(1, 1)), Rat(3, 10))
              ELSE s0
        s2 == IF Truthy(financial)
              THEN RatMul(RatMin(Rat(TruthyValues(financial), 4), Rat(1, 1)), Rat(4, 10))
              ELSE s1
        s3 == IF Truthy(goals)
              THEN RatMul(RatMin(Rat(GoalsQuality(goals), Len(goals.elems)), Rat(1, 1)), Rat(3, 10))
              ELSE s2
    IN IF Truthy(goals) /\ \E i \in 1..Len(goals.elems) : goals.elems[i].kind # "dict"
       THEN Raised("AttributeError")
       ELSE Ok(RatMin(s3, Rat(1, 1)))

calculate_confidence(extracted_data) ==
    LET personal == extracted_data.personalInfo
        financial == extracted_data.financialInfo
        goals == extracted_data.goals
        s0 == Rat(0, 1)
        s1 == IF Truthy(personal)
              THEN RatAdd(s0, RatMul(RatMin(Rat(TruthyValues(personal), 5), Rat(1, 1)), Rat(3, 10)))
              ELSE s0
        s2 == IF Truthy(financial)
              THEN RatAdd(s1, RatMul(RatMin(Rat(TruthyValues(financial), 4), Rat(1, 1)), Rat(4, 10)))
              ELSE s1
        s3 == IF Truthy(goals)
              THEN RatAdd(s2, RatMul(RatMin(Rat(GoalsQuality(goals), Len(goals.elems)), Rat(1, 1)),
                                     Rat(3, 10)))
              ELSE s2
    IN IF Truthy(goals) /\ \E i \in 1..Len(goals.elems) : goals.elems[i].kind # "dict"
       THEN \* goal.get of an object without get()
            Raised("AttributeError")
       ELSE Ok(RatMin(s3, Rat(1, 1)))

----------------------------------------------------------------------------
(* Inputs.                                                                 *)

SmallAlphabet == {" ", "x", "\t"}

\* every text of at most n characters over SmallAlphabet
Texts(n) == UNION {[1..k -> SmallAlphabet] : k \in 0..n}

\* n characters of whitespace
Pad(n) == AsTuple([i \in 1..n |-> IF i % 2 = 1 THEN " " ELSE "\n"], n)

\* body with up to n characters of whitespace on either side
Padded(body, n) == {Pad(l) \o body \o Pad(t) : l, t \in 0..n}

\* texts that match one pattern or phrase each, and near misses
SampleBodies ==
    { <<"W","h","a","t"," ","i","s"," ","a"," ","4","0","1","k","?">>,
      <<"m","y"," ","p","a","s","s","w","o","r","d"," ","i","s"," ","x">>,
      <<"p","a","s","s","w","o","r","d","s">>,
      <<"A","P","I","_","K","E","Y">>,
      <<"t","o","k","e","n","s">>,
      <<"a","u","t","h","-","t","o","k","e","n">>,
      <<"a","b","c","d","e","f","g","h","i","j","0","1","2","3","4","5","6","7","8","9">>,
      <<"a","b","c","d","e","f","g","h","i","j","0","1","2","3","4","5","6","7","8">>,
      <<"a","b","c","d","e","f","g","h","i","j","0","1","2","3","4","5","6","7","8","9","_">>,
      <<"$","{","H","O","M","E","}">>,
      <<"$","{","\n","}">>,
      <<"B","e","a","r","e","r"," ","a","b","c","1","2","3">>,
      <<"B","e","a","r","e","r">>,
      <<"B","e","a","r","e","r","\n","\t","x","-","1">>,
      <<"<","s","c","r","i","p","t",">","a","<","/","s","c","r","i","p","t",">">>,
      <<"<","s","c","r","i","p","t",">">>,
      <<"j","a","v","a","s","c","r","i","p","t",":","x">>,
      <<"d","a","t","a",":","x",";","b","a","s","e","6","4">>,
      <<"d","a","t","a",":","\n","b","a","s","e","6","4">>,
      <<"f","i","l","e",":","/","/","x">>,
      <<"l","o","c","a","l","h","o","s","t",":","8","0">>,
      <<"l","o","c","a","l","h","o","s","t",":">>,
      <<"1","2","7",".","0",".","0",".","1">>,
      <<"1","2","7",".","0",".","0",".","1","1">>,
      <<"0",".","0",".","0",".","0">>,
      <<"-","-","-","-","-","B","E","G","I","N"," ","K","E","Y","-","-","-","-","-">>,
      <<"-","-","-","-","-","B","E","G","I","N">>,
      <<"D","e","b","u","g">>,
      <<"s","t","a","c","k"," ","t","r","a","c","e">>,
      <<"s","t","a","c","k","t","r","a","c","e">>,
      <<"p","r","i","n","t","(">>,
      <<"e","r","r","o","r",":">>,
      <<"e","r","r","o","r">>,
      <<"i","n","t","e","r","n","a","l"," ","e","r","r","o","r">>,
      <<"c","o","n","s","o","l","e",".","l","o","g">>,
      <<"e","x","c","e","p","t","i","o","n",":">>,
      <<"t","r","a","c","e","b","a","c","k">>,
      <<"s","q","l"," ","e","r","r","o","r">>,
      <<"d","a","t","a","b","a","s","e"," ","e","r","r","o","r">> }

\* texts around the two length limits; no pattern matches a run of dots
LongBodies ==
    { Rep(".", n) : n \in { MAX_STRING_LENGTH - 1, MAX_STRING_LENGTH, MAX_STRING_LENGTH + 1,
                            MAX_INPUT_LENGTH, MAX_INPUT_LENGTH + 1 } }

\* values that are no str
NonTexts == {PyNone, PyInt(5), PyList(<<>>)}

SanitizeTexts ==
    {PyStr(t) : t \in Texts(MaxLen)}
    \cup {PyStr(t) : t \in UNION {Padded(b, MaxPad) : b \in SampleBodies}}
    \cup {PyStr(t) : t \in UNION {Padded(b, 1) : b \in LongBodies}}
    \cup NonTexts

SanitizeLimits == {MaxLen, MAX_KEY_LENGTH, MAX_STRING_LENGTH, MAX_INPUT_LENGTH}

\* messages sent to the Router and the General Responder
Messages ==
    {PyStr(b) : b \in SampleBodies}
    \cup {PyStr(t) : t \in Padded(<<"h","i">>, MaxPad)}
    \cup {PyStr(Rep(".", MAX_INPUT_LENGTH)), PyStr(Rep(".", MAX_INPUT_LENGTH + 1))}
    \cup NonTexts

\* messages sent to the Orchestrator
ChatMessages ==
    { PyStr(<<"h","i">>),
      PyStr(<<" "," ","h","i"," ","\n">>),
      PyStr(<<"W","h","a","t"," ","i","s"," ","a"," ","4","0","1","k","?">>),
      PyStr(<<"d","e","b","u","g"," ","t","h","i","s">>),
      PyStr(<<"B","e","a","r","e","r"," ","a","b","c","1","2","3">>),
      PyStr(Rep(".", MAX_INPUT_LENGTH + 1)) }
    \cup NonTexts

PROFILE_A == PyDict(<<[k |-> PyStr(<<"a","g","e">>), v |-> PyInt(30)]>>)
PROFILE_B == PyDict(<<[k |-> PyStr(<<"i","n","c","o","m","e">>), v |-> PyInt(75000)]>>)

\* user_profile: absent, empty, or one of two profiles
Profiles == {PyNone, PyDict(<<>>), PROFILE_A, PROFILE_B}

\* smart_chat.py:54
SIMPLE_RESPONSE_MIN == 10

\* chat_router.py:30
MESSAGE_TYPES == {"general", "personal", "financial", "goal_setting"}

SimpleResponses ==
    UNION { Padded(Rep("a", n), MaxPad) :
              n \in {0, SIMPLE_RESPONSE_MIN - 1, SIMPLE_RESPONSE_MIN, SIMPLE_RESPONSE_MIN + 1} }

\* the RouterDecisions the router chain may parse
Decisions ==
    {RouterDecision(n, "general", r) : n \in BOOLEAN, r \in SimpleResponses}
    \cup {RouterDecision(FALSE, t, GENERAL_ERROR_FALLBACK) : t \in MESSAGE_TYPES}
    \cup {RouterDecision(TRUE, t, <<>>) : t \in MESSAGE_TYPES}

RouterOutcomes == {LLMError, LLMMalformed} \cup {LLMReturn(d) : d \in Decisions}

\* n characters, "x" up to the limit and "y" beyond it
Content(n) == AsTuple([i \in 1..n |-> IF i <= GENERAL_LIMIT THEN "x" ELSE "y"], n)

\* what general_llm may answer: a content around the limit, or one that is no str
GeneralOutcomes ==
    {LLMError}
    \cup {LLMReturn(PyStr(Content(n))) :
            n \in {0, 1, GENERAL_LIMIT - 1, GENERAL_LIMIT, GENERAL_LIMIT + 1, GENERAL_LIMIT + MaxLen}}
    \cup {LLMReturn(PyList(<<>>))}

S_NAME == PyStr(<<"n","a","m","e">>)
S_INCOME == PyStr(<<"i","n","c","o","m","e">>)
S_SAVINGS == PyStr(<<"s","a","v","i","n","g","s">>)
S_TITLE == PyStr(<<"t","i","t","l","e">>)
S_CATEGORY == PyStr(<<"c","a","t","e","g","o","r","y">>)
S_STATUS == PyStr(<<"s","t","a","t","u","s">>)
S_DATA == PyStr(<<"d","a","t","a">>)
M_REPLY == <<"H","e","r","e"," ","i","s"," ","m","y"," ","a","d","v","i","c","e">>

Item(key, value) == [k |-> key, v |-> value]

\* a Goal, as model_dump() writes it
GOAL_HOUSE ==
    PyDict(<<Item(S_TITLE, PyStr(<<"B","u","y"," ","a"," ","h","o","u","s","e">>)),
             Item(S_CATEGORY, PyStr(<<"f","i","n","a","n","c","i","a","l">>)),
             Item(S_STATUS, PyStr(<<"a","c","t","i","v","e">>)),
             Item(S_DATA, PyNone)>>)

PersonalInfos ==
    { PyNone,
      PyDict(<<>>),
      PyDict(<<Item(S_NAME, PyStr(<<" ","J","a","n","e"," ">>)), Item(KEY_AGE, PyInt(18))>>),
      PyDict(<<Item(KEY_AGE, PyInt(MAX_AGE + 1))>>),
      PyDict(<<Item(S_NAME, PyStr(<<"d","e","b","u","g">>))>>),
      PyDict(<<Item(PyStr(<<" ","a","g","e">>), PyInt(MAX_AGE + 50))>>) }

FinancialInfos ==
    { PyNone,
      PyDict(<<Item(S_INCOME, PyFloat(50000)), Item(S_SAVINGS, PyFloat(5000))>>),
      PyDict(<<Item(KEY_DEBT, PyFloat(0 - 15000))>>),
      PyDict(<<Item(S_INCOME, PyFloat(0 - 1))>>),
      PyDict(<<Item(S_SAVINGS, PyFloat(MAX_FINANCIAL_VALUE + 1))>>) }

\* a Goal whose title holds a banned phrase
GOAL_DEBUG ==
    PyDict(<<Item(S_TITLE, PyStr(<<"d","e","b","u","g"," ","m","o","d","e">>)),
             Item(S_CATEGORY, PyStr(<<"f","i","n","a","n","c","i","a","l">>)),
             Item(S_STATUS, PyStr(<<"a","c","t","i","v","e">>)),
             Item(S_DATA, PyNone)>>)

GoalLists == {PyNone, PyList(<<GOAL_HOUSE>>), PyList(<<GOAL_HOUSE, GOAL_DEBUG>>)}

\* the ChatResponses the chat chain may parse
ChatResults ==
    {ChatResponse(M_REPLY, p, f, g) : p \in PersonalInfos, f \in FinancialInfos, g \in GoalLists}

\* the chain fails, returns an object without a message, or returns a ChatResponse
ChatOutcomes == {LLMError, LLMMalformed, LLMReturn(PyNone)} \cup {LLMReturn(r) : r \in ChatResults}

----------------------------------------------------------------------------
(* The state before any call.                                              *)

NoCalls == [router |-> 0, general |-> 0, personalized |-> 0, llm |-> 0]
NoLLM == [router |-> NotCalled, general |-> NotCalled, chat |-> NotCalled]
NoValue == [kind |-> "unset"]
\* calls of the handler in one run, each by a caller of its own
MaxMerges == 2

Callers == 1..MaxMerges

\* where each caller is in its call, and the locals of the call
NoHandlers ==
    [t \in Callers |-> [pc |-> "idle", profile |-> NoValue, new_data |-> NoValue,
                        run |-> NoValue, update_ok |-> FALSE, ready |-> FALSE]]

\* a store without a profile that got no request
NoStore == [profile |-> PyNone, requests |-> <<>>]

Init ==
    /\ pc = "idle"
    /\ op = "none"
    /\ args = NoValue
    /\ ret = NoValue
    /\ log = <<>>
    /\ calls = NoCalls
    /\ routing_decision = NoValue
    /\ general_response = NoValue
    /\ full_response = NoValue
    /\ llm = NoLLM
    /\ store = NoStore
    /\ twin = NoValue
    /\ handlers = NoHandlers

----------------------------------------------------------------------------
(* Sanitizer calls.                                                        *)

CallSanitizeString ==
    /\ pc = "idle"
    /\ \E text \in SanitizeTexts, max_length \in SanitizeLimits :
          /\ op' = "sanitize_string"
          /\ args' = [text |-> text, max_length |-> max_length]
          /\ ret' = sanitize_string(text, max_length)
    /\ pc' = "done"
    /\ UNCHANGED <<handlers, twin, store, log, calls, routing_decision, general_response, full_response, llm>>

SpecSanitize == Init /\ [][CallSanitizeString]_vars

----------------------------------------------------------------------------
(* sanitize_dict and sanitize_list calls.                                  *)

\* items of a dict, elements of a list
MaxItems == 2

DataKeys ==
    { PyStr(<<"a">>), PyStr(<<" ","a">>), PyStr(<<"b"," ">>), PyInt(1) }

DataLeaves ==
    { PyStr(<<"x">>), PyStr(<<" ","x","\n">>), PyInt(7), PyFloat(2), PyBool(TRUE), PyNone,
      PyTuple(<<PyInt(1)>>), PyTuple(<<PyInt(1), PyInt(2)>>) }

\* a value of an item: a leaf, or a dict or a list of one leaf
DataValues ==
    DataLeaves
    \cup {PyDict(<<Item(PyStr(<<" ","k">>), v)>>) : v \in {PyStr(<<" ","x","\n">>), PyTuple(<<PyInt(1), PyInt(2)>>)}}
    \cup {PyList(<<v>>) : v \in {PyStr(<<" ","x","\n">>), PyTuple(<<PyInt(1), PyInt(2)>>)}}

DataItems == {Item(k, v) : k \in DataKeys, v \in DataValues}

\* the keys of a dict are distinct
DataDicts ==
    { PyDict(items) : items \in
        { s \in UNION {[1..n -> DataItems] : n \in 0..MaxItems} :
            \A i, j \in 1..Len(s) : s[i].k = s[j].k => i = j } }

DataLists ==
    { PyList(xs) : xs \in UNION {[1..n -> DataValues] : n \in 0..MaxItems} }

\* max_size around the size of the data, twice that for a nested dict, and
\* the default
SizeLimits(data) ==
    { JsonLen(data) - 1, JsonLen(data), JsonLen(data) + 1, 2 * JsonLen(data) + 1, MAX_JSON_SIZE }

CallSanitizeDict ==
    /\ pc = "idle"
    /\ \E data \in DataDicts :
          \E max_size \in SizeLimits(data) :
             /\ op' = "sanitize_dict"
             /\ args' = [data |-> data, max_size |-> max_size]
             /\ ret' = sanitize_dict(data, max_size)
    /\ pc' = "done"
    /\ UNCHANGED <<handlers, twin, store, log, calls, routing_decision, general_response, full_response, llm>>

CallSanitizeList ==
    /\ pc = "idle"
    /\ \E data \in DataLists :
          /\ op' = "sanitize_list"
          /\ args' = [data |-> data]
          /\ ret' = sanitize_list(data)
    /\ pc' = "done"
    /\ UNCHANGED <<handlers, twin, store, log, calls, routing_decision, general_response, full_response, llm>>

SpecSanitizeData == Init /\ [][CallSanitizeDict \/ CallSanitizeList]_vars

----------------------------------------------------------------------------
(* Router calls.                                                           *)

CallRoute ==
    /\ pc = "idle"
    /\ \E input_text \in Messages, outcome \in RouterOutcomes :
          \E r \in {route_chat_message(input_text, outcome)} :
             /\ op' = "route_chat_message"
             /\ args' = [input_text |-> input_text]
             /\ ret' = Ok(r.val)
             /\ log' = r.events
             /\ calls' = [calls EXCEPT !.router = 1, !.llm = r.llm_calls]
             /\ llm' = [llm EXCEPT !.router = IF r.llm_calls > 0 THEN outcome ELSE NotCalled]
    /\ pc' = "done"
    /\ UNCHANGED <<handlers, twin, store, routing_decision, general_response, full_response>>

SpecRouter == Init /\ [][CallRoute]_vars

----------------------------------------------------------------------------
(* General Responder calls.                                                *)

CallGeneralAdvice ==
    /\ pc = "idle"
    /\ \E input_text \in Messages, outcome \in GeneralOutcomes :
          \E r \in {get_general_advice(input_text, outcome)} :
             /\ op' = "get_general_advice"
             /\ args' = [input_text |-> input_text]
             /\ ret' = Ok(r.val)
             /\ log' = r.events
             /\ calls' = [calls EXCEPT !.general = 1, !.llm = r.llm_calls]
             /\ llm' = [llm EXCEPT !.general = IF r.llm_calls > 0 THEN outcome ELSE NotCalled]
    /\ pc' = "done"
    /\ UNCHANGED <<handlers, twin, store, routing_decision, general_response, full_response>>

SpecGeneral == Init /\ [][CallGeneralAdvice]_vars

----------------------------------------------------------------------------
(* Personalized Responder calls.                                           *)

CallSecureChat ==
    /\ pc = "idle"
    /\ \E input_text \in Messages, outcome \in ChatOutcomes :
          \E r \in {secure_chat_invoke(input_text, outcome)} :
             /\ op' = "secure_chat_invoke"
             /\ args' = [input_text |-> input_text]
             /\ ret' = Ok(r.val)
             /\ log' = r.events
             /\ calls' = [calls EXCEPT !.personalized = 1, !.llm = r.llm_calls]
             /\ llm' = [llm EXCEPT !.chat = IF r.llm_calls > 0 THEN outcome ELSE NotCalled]
    /\ pc' = "done"
    /\ UNCHANGED <<handlers, twin, store, routing_decision, general_response, full_response>>

SpecChat == Init /\ [][CallSecureChat]_vars

----------------------------------------------------------------------------
(* Confidence score calls.                                                 *)

\* fields of a section with a value that counts
MaxFields == 6
\* goals of an extraction
MaxGoals == 2

\* the key of the i-th field
FieldKey(i) == PyStr(<<"f">> \o IntToStr(i))

\* a section of t fields with the value v, then z fields with the value
\* zero, then o fields with the value None
InfoOf(t, z, o, v, zero) ==
    PyDict(AsTuple([i \in 1..(t + z + o) |->
                      Item(FieldKey(i), IF i <= t THEN v ELSE IF i <= t + z THEN zero ELSE PyNone)],
                   t + z + o))

ScorePersonalInfos ==
    {PyNone}
    \cup {InfoOf(t, z, o, PyInt(30), PyStr(<<>>)) : t \in 0..MaxFields, z \in 0..1, o \in 0..1}

ScoreFinancialInfos ==
    {PyNone}
    \cup {InfoOf(t, z, o, PyFloat(50000), PyFloat(0)) : t \in 0..(MaxFields - 1), z \in 0..1, o \in 0..1}

\* a goal as a dict
GoalDict(title, category) ==
    PyDict(<<Item(KEY_TITLE, title), Item(KEY_CATEGORY, category),
             Item(S_STATUS, PyStr(<<"a","c","t","i","v","e">>))>>)

T_HOUSE == PyStr(<<"B","u","y"," ","a"," ","h","o","u","s","e">>)
T_RETIRE == PyStr(<<"R","e","t","i","r","e">>)
T_CAR == PyStr(<<"C","a","r">>)
C_FINANCIAL == PyStr(<<"f","i","n","a","n","c","i","a","l">>)
C_PERSONAL == PyStr(<<"p","e","r","s","o","n","a","l">>)

\* a Goal of the response schema: an object, not a mapping
GOAL_OBJECT ==
    PyObject(<<Item(S_TITLE, T_HOUSE), Item(S_CATEGORY, C_FINANCIAL),
               Item(S_STATUS, PyStr(<<"a","c","t","i","v","e">>)), Item(S_DATA, PyNone)>>)

\* a Goal with the title Car, as the chain parses it
GOAL_OBJECT_CAR ==
    PyObject(<<Item(S_TITLE, T_CAR), Item(S_CATEGORY, C_PERSONAL),
               Item(S_STATUS, PyStr(<<"a","c","t","i","v","e">>)), Item(S_DATA, PyNone)>>)

\* a goal with both, one without a title, one without a category
ScoreGoalDicts ==
    { GoalDict(T_HOUSE, C_FINANCIAL), GoalDict(PyStr(<<>>), C_FINANCIAL), GoalDict(T_RETIRE, PyNone) }

\* the goals of an extraction: dicts, and the Goal objects that
\* process_conversation passes (line 75, ai_response.goals)
ScoreGoals == ScoreGoalDicts \cup {GOAL_OBJECT}

ScoreGoalLists ==
    {PyNone} \cup {PyList(xs) : xs \in UNION {[1..n -> ScoreGoals] : n \in 0..MaxGoals}}

ScoreInputs ==
    {ExtractedData(p, f, g) : p \in ScorePersonalInfos, f \in ScoreFinancialInfos, g \in ScoreGoalLists}

\* info with one more field
WithField(info, value) ==
    IF info.kind = "none" THEN PyDict(<<Item(FieldKey(1), value)>>)
    ELSE PyDict(Append(info.items, Item(FieldKey(Len(info.items) + 1), value)))

\* goals with one more goal
WithGoal(goals, goal) ==
    IF goals.kind = "none" THEN PyList(<<goal>>) ELSE PyList(Append(goals.elems, goal))

\* extracted_data with one populated field or one goal with title and
\* category more, the goal as a dict or as a Goal
Extensions(d) ==
    { ExtractedData(WithField(d.personalInfo, PyInt(30)), d.financialInfo, d.goals),
      ExtractedData(d.personalInfo, WithField(d.financialInfo, PyFloat(50000)), d.goals),
      ExtractedData(d.personalInfo, d.financialInfo, WithGoal(d.goals, GoalDict(T_CAR, C_PERSONAL))),
      ExtractedData(d.personalInfo, d.financialInfo, WithGoal(d.goals, GOAL_OBJECT_CAR)) }

CallCalculateConfidence ==
    /\ pc = "idle"
    /\ \E extracted_data \in ScoreInputs :
          /\ op' = "_calculate_confidence"
          /\ args' = [extracted_data |-> extracted_data]
          /\ ret' = calculate_confidence(extracted_data)
    /\ pc' = "scored"
    /\ UNCHANGED <<handlers, twin, store, log, calls, routing_decision, general_response, full_response, llm>>

\* the score of the same data with one field or goal more
CallCalculateConfidenceAgain ==
    /\ pc = "scored"
    /\ op = "_calculate_confidence"
    /\ ret.ok
    /\ \E extended \in Extensions(args.extracted_data) :
          /\ args' = [extracted_data |-> extended,
                      before |-> args.extracted_data,
                      score_before |-> ret.val]
          /\ ret' = calculate_confidence(extended)
    /\ pc' = "done"
    /\ UNCHANGED <<handlers, twin, store, op, log, calls, routing_decision, general_response, full_response, llm>>

SpecScore == Init /\ [][CallCalculateConfidence \/ CallCalculateConfidenceAgain]_vars

----------------------------------------------------------------------------
(* Orchestrator, smart_chat.py:25-96.                                      *)

\* SmartChatResponse built without the goals
SmartChatResponseNoGoals(message, personalInfo, financialInfo, goals, used_user_data) ==
    [message |-> message,
     personalInfo |-> personalInfo,
     financialInfo |-> financialInfo,
     goals |-> PyNone,
     used_user_data |-> used_user_data]

\* SmartChatResponse keeping the default of used_user_data
SmartChatResponseDefaultFlag(message, personalInfo, financialInfo, goals, used_user_data) ==
    [message |-> message,
     personalInfo |-> personalInfo,
     financialInfo |-> financialInfo,
     goals |-> goals,
     used_user_data |-> FALSE]

SmartChatResponse(message, personalInfo, financialInfo, goals, used_user_data) ==
    [message |-> message,
     personalInfo |-> personalInfo,
     financialInfo |-> financialInfo,
     goals |-> goals,
     used_user_data |-> used_user_data]

\* len(input_text) is defined
HasLen(v) == v.kind \in {"str", "list", "tuple", "dict"}

\* the handler raising e again instead of answering
SmartChatExceptReraise(e) == [ok |-> FALSE, why |-> e]

\* smart_chat.py:89-96: except Exception
SmartChatExcept(e) ==
    Ok(SmartChatResponse(SMART_CHAT_FALLBACK, PyNone, PyNone, PyNone, FALSE))

\* the length taken before the trim
UseSimpleResponseUntrimmed(decision) ==
    /\ Len(decision.simple_response) > 0
    /\ Len(decision.simple_response) > SIMPLE_RESPONSE_MIN

\* smart_chat.py:54
UseSimpleResponse(decision) ==
    /\ Len(decision.simple_response) > 0
    /\ Len(strip(decision.simple_response)) > SIMPLE_RESPONSE_MIN

\* the profile check left out
ProfileCheckSkipped(user_profile) == FALSE

\* a profile without an age counted as missing
ProfileMissingWithoutAge(user_profile) ==
    \/ ~Truthy(user_profile)
    \/ user_profile.kind = "dict" /\ ~(\E i \in 1..Len(user_profile.items) :
                                          user_profile.items[i].k = KEY_AGE)

\* smart_chat.py:72: not user_profile
ProfileMissing(user_profile) == ~Truthy(user_profile)

\* what a chain that the first invocation did not ask may answer the second
SecondRouterOutcomes == {LLMError, LLMReturn(RouterDecision(TRUE, "personal", <<>>))}
SecondGeneralOutcomes == {LLMError, LLMReturn(PyStr(M_REPLY))}
SecondChatOutcomes ==
    {LLMError,
     LLMReturn(ChatResponse(M_REPLY,
                            PyDict(<<Item(S_NAME, PyStr(<<"J","a","n","e">>))>>),
                            PyNone,
                            PyList(<<GOAL_HOUSE>>)))}

\* the answers a chain may give: any of its outcomes to a first invocation;
\* to a second invocation of the same message (twin holds the first) what it
\* answered the first or a failure, and one of a few outcomes if the first
\* did not ask it
Answers(outcomes, chain, others) ==
    IF twin = NoValue THEN outcomes
    ELSE IF twin.llm[chain] = NotCalled THEN others
    ELSE {twin.llm[chain], LLMError}

\* smart_chat.py:43-47: enter the try block and log the message length
SmartChatStart ==
    /\ pc = "idle"
    /\ \E input_text \in ChatMessages, user_profile \in Profiles :
          /\ op' = "smart_chat_invoke"
          /\ args' = [input_text |-> input_text, user_profile |-> user_profile]
          /\ IF HasLen(input_text)
             THEN /\ log' = <<"chat_routing_start">>
                  /\ pc' = "route"
                  /\ ret' = ret
             ELSE \* len() raises TypeError inside the try block
                  /\ log' = <<"smart_chat_error">>
                  /\ pc' = "done"
                  /\ ret' = SmartChatExcept("TypeError")
    /\ UNCHANGED <<handlers, twin, store, calls, routing_decision, general_response, full_response, llm>>

\* smart_chat.py:47: routing_decision = route_chat_message(input_text, user_id)
SmartChatRoute ==
    /\ pc = "route"
    /\ \E outcome \in Answers(RouterOutcomes, "router", SecondRouterOutcomes) :
          \E r \in {route_chat_message(args.input_text, outcome)} :
             /\ routing_decision' = r.val
             /\ log' = log \o r.events
             /\ calls' = [calls EXCEPT !.router = @ + 1, !.llm = @ + r.llm_calls]
             /\ llm' = [llm EXCEPT !.router = IF r.llm_calls > 0 THEN outcome ELSE NotCalled]
    /\ pc' = "dispatch"
    /\ UNCHANGED <<handlers, twin, store, op, args, ret, general_response, full_response>>

\* smart_chat.py:50-76: choose the layer, or answer at once
SmartChatDispatch ==
    /\ pc = "dispatch"
    /\ IF ~routing_decision.needs_user_data
       THEN /\ log' = Append(log, "chat_using_general")
            /\ IF UseSimpleResponse(routing_decision)
               THEN /\ ret' = Ok(SmartChatResponse(routing_decision.simple_response,
                                                   PyNone, PyNone, PyNone, FALSE))
                    /\ pc' = "done"
               ELSE /\ ret' = ret
                    /\ pc' = "general"
       ELSE /\ log' = Append(log, "chat_using_full_context")
            /\ IF ProfileMissing(args.user_profile)
               THEN /\ ret' = Ok(SmartChatResponse(REQUEST_DETAILS_MESSAGE,
                                                   PyNone, PyNone, PyNone, FALSE))
                    /\ pc' = "done"
               ELSE /\ ret' = ret
                    /\ pc' = "personalized"
    /\ UNCHANGED <<handlers, twin, store, op, args, calls, routing_decision, general_response, full_response, llm>>

\* smart_chat.py:61-65: general_response = get_general_advice(...)
SmartChatGeneral ==
    /\ pc = "general"
    /\ \E outcome \in Answers(GeneralOutcomes, "general", SecondGeneralOutcomes) :
          \E r \in {get_general_advice(args.input_text, outcome)} :
             /\ general_response' = r.val
             /\ ret' = Ok(SmartChatResponse(r.val.message, PyNone, PyNone, PyNone, FALSE))
             /\ log' = log \o r.events
             /\ calls' = [calls EXCEPT !.general = @ + 1, !.llm = @ + r.llm_calls]
             /\ llm' = [llm EXCEPT !.general = IF r.llm_calls > 0 THEN outcome ELSE NotCalled]
    /\ pc' = "done"
    /\ UNCHANGED <<handlers, twin, store, op, args, routing_decision, full_response>>

\* smart_chat.py:79-87: full_response = secure_chat_invoke(...)
SmartChatPersonalized ==
    /\ pc = "personalized"
    /\ \E outcome \in Answers(ChatOutcomes, "chat", SecondChatOutcomes) :
          \E r \in {secure_chat_invoke(args.input_text, outcome)} :
             /\ full_response' = r.val
             /\ ret' = Ok(SmartChatResponse(r.val.message, r.val.personalInfo,
                                            r.val.financialInfo, r.val.goals, TRUE))
             /\ log' = log \o r.events
             /\ calls' = [calls EXCEPT !.personalized = @ + 1, !.llm = @ + r.llm_calls]
             /\ llm' = [llm EXCEPT !.chat = IF r.llm_calls > 0 THEN outcome ELSE NotCalled]
    /\ pc' = "done"
    /\ UNCHANGED <<handlers, twin, store, op, args, routing_decision, general_response>>

Next ==
    \/ SmartChatStart
    \/ SmartChatRoute
    \/ SmartChatDispatch
    \/ SmartChatGeneral
    \/ SmartChatPersonalized

Spec == Init /\ [][Next]_vars

----------------------------------------------------------------------------
(* Properties of the Orchestrator, checked under Spec.                     *)

\* a smart_chat_invoke call has returned or raised
SmartChatDone == op = "smart_chat_invoke" /\ pc = "done"

\* the routing decision of the call under way has been taken
Routed == op = "smart_chat_invoke" /\ calls.router = 1

\* the response of the except handler
FallbackResponse ==
    [message |-> SMART_CHAT_FALLBACK,
     personalInfo |-> PyNone,
     financialInfo |-> PyNone,
     goals |-> PyNone,
     used_user_data |-> FALSE]

\* C1: smart_chat_invoke never raises: every call that ends has returned a
\* response, and once an exception has reached the handler ("smart_chat_error"
\* is logged) that response is the fixed fallback message with
\* used_user_data = False and no personalInfo, financialInfo or goals.
C1_NeverRaises ==
    SmartChatDone =>
        /\ ret.ok
        /\ (\E i \in 1..Len(log) : log[i] = "smart_chat_error") => ret.val = FallbackResponse

\* an exception was raised in the try block and the call returned
C1_Witness ==
    /\ SmartChatDone
    /\ args.input_text.kind = "none"
    /\ log = <<"smart_chat_error">>
    /\ ret.ok
    /\ ret.val.message = SMART_CHAT_FALLBACK

\* C2: when the decision has needs_user_data = True and no user_profile is
\* given, the call does not reach the Personalized Responder and returns the
\* request-for-details message with used_user_data = False, whatever the
\* message.
C2_NoProfile ==
    (Routed /\ routing_decision.needs_user_data /\ args.user_profile.kind = "none"
       /\ pc \in {"personalized", "done"}) =>
        /\ pc = "done"
        /\ ret = Ok([message |-> REQUEST_DETAILS_MESSAGE,
                     personalInfo |-> PyNone,
                     financialInfo |-> PyNone,
                     goals |-> PyNone,
                     used_user_data |-> FALSE])
        /\ calls.personalized = 0
        /\ llm.chat.kind = "not_called"

\* the router asked for user data by its own decision, none was given, and
\* the call has returned
C2_Witness ==
    /\ SmartChatDone
    /\ Routed
    /\ llm.router.kind = "result"
    /\ routing_decision.needs_user_data
    /\ routing_decision.message_type = "financial"
    /\ args.user_profile.kind = "none"
    /\ ret.val.message = REQUEST_DETAILS_MESSAGE

\* C3: when the decision has needs_user_data = False, a simple_response of
\* more than 10 characters after the trim is returned as it is, with
\* used_user_data = False and no call of the General Responder; otherwise the
\* General Responder is called once and its message is returned with
\* used_user_data = False.
C3_GeneralPath ==
    (Routed /\ ~routing_decision.needs_user_data /\ pc \in {"general", "personalized", "done"}) =>
        /\ pc # "personalized"
        /\ calls.personalized = 0
        /\ IF Len(strip(routing_decision.simple_response)) > SIMPLE_RESPONSE_MIN
           THEN /\ pc = "done"
                /\ calls.general = 0
                /\ ret = Ok([message |-> routing_decision.simple_response,
                             personalInfo |-> PyNone,
                             financialInfo |-> PyNone,
                             goals |-> PyNone,
                             used_user_data |-> FALSE])
           ELSE pc = "done" =>
                  /\ calls.general = 1
                  /\ ret = Ok([message |-> general_response.message,
                               personalInfo |-> PyNone,
                               financialInfo |-> PyNone,
                               goals |-> PyNone,
                               used_user_data |-> FALSE])

\* a simple_response of 11 characters between whitespace was returned as it is
C3_Witness ==
    /\ SmartChatDone
    /\ Routed
    /\ ~routing_decision.needs_user_data
    /\ Len(routing_decision.simple_response) > Len(strip(routing_decision.simple_response))
    /\ Len(strip(routing_decision.simple_response)) = SIMPLE_RESPONSE_MIN + 1
    /\ ret.val.message = routing_decision.simple_response
    /\ calls.general = 0

\* a simple_response of 10 characters after the trim, longer before it, went
\* to the General Responder
C3_WitnessGeneral ==
    /\ SmartChatDone
    /\ Routed
    /\ ~routing_decision.needs_user_data
    /\ Len(routing_decision.simple_response) > SIMPLE_RESPONSE_MIN
    /\ Len(strip(routing_decision.simple_response)) = SIMPLE_RESPONSE_MIN
    /\ calls.general = 1
    /\ llm.general.kind = "result"
    /\ ret.val.message = general_response.message

\* what the call returns of the Personalized Responder's response
PersonalizedResponse ==
    [message |-> full_response.message,
     personalInfo |-> full_response.personalInfo,
     financialInfo |-> full_response.financialInfo,
     goals |-> full_response.goals,
     used_user_data |-> TRUE]

\* C4, as first stated: when the decision has needs_user_data = True and a
\* user_profile is given, the Personalized Responder is called and its
\* message, personalInfo, financialInfo and goals are returned unchanged with
\* used_user_data = True.
C4_AnyProfile ==
    (SmartChatDone /\ Routed /\ routing_decision.needs_user_data
       /\ args.user_profile.kind # "none") =>
        /\ calls.personalized = 1
        /\ ret = Ok(PersonalizedResponse)

\* C4, amended: when the decision has needs_user_data = True and a user_profile
\* that is not empty is given, the Personalized Responder is called once and
\* its message, personalInfo, financialInfo and goals are returned unchanged
\* with used_user_data = True, also when that response is one of the
\* responder's fallbacks.
C4_NonEmptyProfile ==
    (Routed /\ routing_decision.needs_user_data
       /\ args.user_profile.kind = "dict" /\ Len(args.user_profile.items) > 0
       /\ pc \in {"general", "personalized", "done"}) =>
        /\ pc # "general"
        /\ calls.general = 0
        /\ pc = "done" =>
             /\ calls.personalized = 1
             /\ ret = Ok(PersonalizedResponse)

\* the responder's answer with extracted goals was returned
C4_Witness ==
    /\ SmartChatDone
    /\ Routed
    /\ routing_decision.needs_user_data
    /\ args.user_profile = PROFILE_A
    /\ llm.chat.kind = "result"
    /\ full_response.goals.kind = "list"
    /\ full_response.personalInfo.kind = "dict"
    /\ ret = Ok(PersonalizedResponse)

\* the responder's fallback after a security violation was returned
C4_WitnessFallback ==
    /\ SmartChatDone
    /\ Routed
    /\ routing_decision.needs_user_data
    /\ args.user_profile = PROFILE_B
    /\ full_response.message = SAFE_FALLBACK_MESSAGE
    /\ ret = Ok(PersonalizedResponse)

----------------------------------------------------------------------------
(* Properties of the Router, checked under SpecRouter.                     *)

\* the message does not pass sanitize_string(input_text, MAX_INPUT_LENGTH)
UnsafeInput(input_text) ==
    \/ input_text.kind # "str"
    \/ /\ input_text.kind = "str"
       /\ \/ Len(input_text.str) > MAX_INPUT_LENGTH
          \/ MatchesSensitivePattern(input_text.str)
          \/ ContainsBannedPhrase(input_text.str)

RouteDone == op = "route_chat_message" /\ pc = "done"

\* C5: for a message that fails sanitization (more than 2000 characters, a
\* sensitive pattern, a banned phrase, or no text) route_chat_message returns
\* needs_user_data = False, message_type "general" and the fixed apology,
\* logs the security event and does not call the LLM.
C5_FailsClosed ==
    (RouteDone /\ UnsafeInput(args.input_text)) =>
        /\ ret = Ok([needs_user_data |-> FALSE,
                     message_type |-> "general",
                     simple_response |-> ROUTER_SAFE_RESPONSE])
        /\ log = <<"router_security_violation">>
        /\ calls.llm = 0
        /\ llm.router.kind = "not_called"

\* a message with a bearer token was routed
C5_Witness ==
    /\ RouteDone
    /\ args.input_text = PyStr(<<"B","e","a","r","e","r"," ","a","b","c","1","2","3">>)
    /\ ~ret.val.needs_user_data
    /\ log = <<"router_security_violation">>

\* C6: when the message passes sanitization and the LLM call fails or its
\* output does not parse into a RouterDecision, route_chat_message does not
\* raise and returns needs_user_data = True with an empty simple_response.
C6_FailsOpen ==
    (RouteDone /\ ~UnsafeInput(args.input_text) /\ llm.router.kind \in {"error", "malformed"}) =>
        /\ ret.ok
        /\ ret.val.needs_user_data
        /\ ret.val.simple_response = <<>>

\* the output of the LLM did not parse for a safe message
C6_Witness ==
    /\ RouteDone
    /\ ~UnsafeInput(args.input_text)
    /\ llm.router.kind = "malformed"
    /\ calls.llm = 1
    /\ ret.val.needs_user_data
    /\ log = <<"router_error">>

----------------------------------------------------------------------------
(* Properties of sanitize_string, checked under SpecSanitize.              *)

SanitizeDone == op = "sanitize_string" /\ pc = "done"

\* r is t without the whitespace around it
IsTrimOf(r, t) ==
    /\ Len(r) <= Len(t)
    /\ \E a \in 0..(Len(t) - Len(r)) :
          /\ r = SubSeq(t, a + 1, a + Len(r))
          /\ \A i \in 1..a : IsSpace(t[i])
          /\ \A i \in (a + Len(r) + 1)..Len(t) : IsSpace(t[i])
    /\ Len(r) > 0 => ~IsSpace(r[1]) /\ ~IsSpace(r[Len(r)])

\* C7: for every text and max_length, sanitize_string raises exactly when the
\* text is longer than max_length or matches a sensitive pattern or a banned
\* phrase; otherwise it returns the text with only the whitespace around it
\* removed, never a shorter or a redacted one.
C7_ValidationGate ==
    (SanitizeDone /\ args.text.kind = "str") =>
        /\ ~ret.ok <=> \/ Len(args.text.str) > args.max_length
                       \/ MatchesSensitivePattern(args.text.str)
                       \/ ContainsBannedPhrase(args.text.str)
        /\ ret.ok => /\ ret.val.kind = "str"
                     /\ IsTrimOf(ret.val.str, args.text.str)

\* a text with whitespace around it was returned without it
C7_Witness ==
    /\ SanitizeDone
    /\ args.text = PyStr(<<" ","\n","W","h","a","t"," ","i","s"," ","a"," ","4","0","1","k","?"," ">>)
    /\ ret = Ok(PyStr(<<"W","h","a","t"," ","i","s"," ","a"," ","4","0","1","k","?">>))

\* a text one character longer than max_length was refused
C7_WitnessTooLong ==
    /\ SanitizeDone
    /\ args.text.kind = "str"
    /\ Len(args.text.str) = args.max_length + 1
    /\ args.max_length = MAX_INPUT_LENGTH
    /\ ~ret.ok

----------------------------------------------------------------------------
(* Properties of sanitize_dict and sanitize_list, checked under            *)
(* SpecSanitizeData.                                                       *)

\* C8: sanitization is idempotent: when sanitize_dict or sanitize_list
\* returns, the same sanitizer applied to what it returned returns again, and
\* returns an equal structure.
C8_Idempotent ==
    /\ (op = "sanitize_dict" /\ pc = "done" /\ ret.ok) =>
          sanitize_dict(ret.val, args.max_size) = ret
    /\ (op = "sanitize_list" /\ pc = "done" /\ ret.ok) =>
          sanitize_list(ret.val) = ret

----------------------------------------------------------------------------
(* Properties of the General Responder, checked under SpecGeneral.         *)

GeneralDone == op = "get_general_advice" /\ pc = "done"

\* C9: the message get_general_advice returns has at most 1000 characters,
\* whatever the LLM answered.
C9_HardCap ==
    GeneralDone => Len(ret.val.message) <= GENERAL_LIMIT

\* C10: get_general_advice never raises; when the input fails sanitization it
\* returns the fixed rephrase apology, when the LLM call fails it returns the
\* fixed technical-difficulties message, and the two messages differ, so that
\* the message tells the failure and nothing else.
C10_FixedFallbacks ==
    /\ GENERAL_SECURITY_FALLBACK # GENERAL_ERROR_FALLBACK
    /\ GeneralDone =>
        /\ ret.ok
        /\ UnsafeInput(args.input_text) =>
              /\ ret.val.message = GENERAL_SECURITY_FALLBACK
              /\ log = <<"general_chat_security_violation">>
        /\ (~UnsafeInput(args.input_text) /\ llm.general.kind = "error") =>
              /\ ret.val.message = GENERAL_ERROR_FALLBACK
              /\ log = <<"general_chat_error">>

\* the LLM call failed for a safe message
C10_Witness ==
    /\ GeneralDone
    /\ ~UnsafeInput(args.input_text)
    /\ llm.general.kind = "error"
    /\ ret.val.message = GENERAL_ERROR_FALLBACK

\* a message with a banned phrase was refused
C10_WitnessUnsafe ==
    /\ GeneralDone
    /\ args.input_text = PyStr(<<"D","e","b","u","g">>)
    /\ ret.val.message = GENERAL_SECURITY_FALLBACK
    /\ calls.llm = 0

----------------------------------------------------------------------------
(* Properties of the Personalized Responder, checked under SpecChat.       *)

ChatDone == op = "secure_chat_invoke" /\ pc = "done"

\* a ChatResponse with this message and no extraction
NoExtraction(message) ==
    [message |-> message,
     personalInfo |-> PyNone,
     financialInfo |-> PyNone,
     goals |-> PyNone]

\* info holds a numeric age outside [0, 150]
AgeOutOfRange(info) ==
    /\ info.kind = "dict"
    /\ \E i \in 1..Len(info.items) :
          /\ info.items[i].k = PyStr(<<"a","g","e">>)
          /\ info.items[i].v.kind \in {"int", "float"}
          /\ (info.items[i].v.num < 0 \/ info.items[i].v.num > MAX_AGE)

\* info holds a value above 1e9, or a negative one under a key other than
\* debt and expenses
FinancialOutOfRange(info) ==
    /\ info.kind = "dict"
    /\ \E i \in 1..Len(info.items) :
          /\ info.items[i].v.kind \in {"int", "float"}
          /\ \/ info.items[i].v.num > MAX_FINANCIAL_VALUE
             \/ /\ info.items[i].v.num < 0
                /\ info.items[i].k \notin {PyStr(<<"d","e","b","t">>),
                                           PyStr(<<"e","x","p","e","n","s","e","s">>)}

\* the chain returned a result that raises SecurityViolationError: one
\* without a message, or one a domain validator refuses
RefusedResult ==
    /\ llm.chat.kind = "result"
    /\ \/ ~HasAttr(llm.chat.val, "message")
       \/ /\ HasAttr(llm.chat.val, "message")
          /\ \/ AgeOutOfRange(llm.chat.val.personalInfo)
             \/ FinancialOutOfRange(llm.chat.val.financialInfo)

\* C11: secure_chat_invoke never raises and returns no partial extraction: a
\* security violation (the input fails sanitization, the result has no
\* message, a domain validator refuses personalInfo or financialInfo) yields
\* the safe fallback with personalInfo, financialInfo and goals all None; any
\* other failure of the chain yields the technical-difficulties message with
\* all three None.
C11_FallbackNoExtraction ==
    ChatDone =>
        /\ ret.ok
        /\ (UnsafeInput(args.input_text) \/ RefusedResult) =>
              /\ ret.val = NoExtraction(SAFE_FALLBACK_MESSAGE)
              /\ log = <<"chat_security_violation">>
        /\ (~UnsafeInput(args.input_text) /\ llm.chat.kind \in {"error", "malformed"}) =>
              /\ ret.val = NoExtraction(CHAT_ERROR_MESSAGE)
              /\ log = <<"chat_error">>
        /\ log # <<>> =>
              /\ ret.val.personalInfo = PyNone
              /\ ret.val.financialInfo = PyNone
              /\ ret.val.goals = PyNone

\* a result with a valid personalInfo and goals but a negative income was
\* answered with the safe fallback
C11_Witness ==
    /\ ChatDone
    /\ ~UnsafeInput(args.input_text)
    /\ llm.chat.kind = "result"
    /\ HasAttr(llm.chat.val, "message")
    /\ llm.chat.val.personalInfo.kind = "dict"
    /\ ~AgeOutOfRange(llm.chat.val.personalInfo)
    /\ Len(llm.chat.val.personalInfo.items) = 2
    /\ llm.chat.val.goals.kind = "list"
    /\ FinancialOutOfRange(llm.chat.val.financialInfo)
    /\ ret.val = NoExtraction(SAFE_FALLBACK_MESSAGE)

\* the chain failed for a safe message
C11_WitnessError ==
    /\ ChatDone
    /\ ~UnsafeInput(args.input_text)
    /\ llm.chat.kind = "error"
    /\ ret.val = NoExtraction(CHAT_ERROR_MESSAGE)

\* C12: in every ChatResponse secure_chat_invoke returns, no financialInfo
\* value is negative except under debt or expenses, none exceeds 1e9, and a
\* numeric personalInfo age lies in [0, 150].
C12_DomainBounds ==
    ChatDone =>
        /\ ~AgeOutOfRange(ret.val.personalInfo)
        /\ ~FinancialOutOfRange(ret.val.financialInfo)

RECURSIVE StringsPass(_)
\* every str in v passes the checks of sanitize_string
StringsPass(v) ==
    CASE v.kind = "str" ->
            /\ Len(v.str) <= MAX_STRING_LENGTH
            /\ ~MatchesSensitivePattern(v.str)
            /\ ~ContainsBannedPhrase(v.str)
      [] v.kind = "dict" ->
            \A i \in 1..Len(v.items) : StringsPass(v.items[i].k) /\ StringsPass(v.items[i].v)
      [] v.kind \in {"list", "tuple"} ->
            \A i \in 1..Len(v.elems) : StringsPass(v.elems[i])
      [] OTHER -> TRUE

\* C13: every string in the personalInfo, financialInfo and goals of a
\* ChatResponse secure_chat_invoke returns has passed the Sanitizer's checks:
\* no sensitive pattern, no banned phrase, within the length limit.
C13_OutboundSanitized ==
    ChatDone =>
        /\ StringsPass(ret.val.personalInfo)
        /\ StringsPass(ret.val.financialInfo)
        /\ StringsPass(ret.val.goals)

----------------------------------------------------------------------------
(* Properties of the confidence score, checked under SpecScore.            *)

Scored == op = "_calculate_confidence" /\ pc \in {"scored", "done"}

\* the fields of a section whose value is not None
NonNullFields(info) ==
    IF info.kind = "dict"
    THEN Cardinality({i \in 1..Len(info.items) : info.items[i].v.kind # "none"})
    ELSE 0

\* 100 * N times the reference score 0.3 * min(P/5, 1) + 0.4 * min(F/4, 1)
\* + 0.3 * min(G/N, 1) of the data, N its number of goals (1 without goals)
ReferenceScore(d) ==
    LET P == NonNullFields(d.personalInfo)
        F == NonNullFields(d.financialInfo)
        N == IF d.goals.kind = "list" /\ Len(d.goals.elems) > 0 THEN Len(d.goals.elems) ELSE 1
        G == IF d.goals.kind = "list"
             THEN Cardinality({i \in 1..Len(d.goals.elems) :
                                 /\ Truthy(DictGet(d.goals.elems[i], PyStr(<<"t","i","t","l","e">>)))
                                 /\ Truthy(DictGet(d.goals.elems[i], PyStr(<<"c","a","t","e","g","o","r","y">>)))})
             ELSE 0
    IN [num |-> 6 * (IF P < 5 THEN P ELSE 5) * N + 10 * (IF F < 4 THEN F ELSE 4) * N + 30 * G,
        den |-> 100 * N]

\* C14: for every extracted data the confidence score equals
\* 0.3 * min(P/5, 1) + 0.4 * min(F/4, 1) + 0.3 * min(G/N, 1), P and F the
\* numbers of fields of personalInfo and financialInfo that are not None, G
\* the number of goals with title and category, N the number of goals, a
\* term of an absent section being 0.
C14_ReferenceFormula ==
    Scored =>
        /\ ret.ok
        /\ ret.val.num * ReferenceScore(args.extracted_data).den
             = ReferenceScore(args.extracted_data).num * ret.val.den

\* C15: the confidence score lies in [0, 1], and the score of the data with
\* one populated field more in personalInfo or financialInfo, or with one
\* goal with title and category more, is not lower than the score before.
C15_MonotonicBounded ==
    Scored =>
        /\ ret.ok
        /\ 0 <= ret.val.num
        /\ ret.val.num <= ret.val.den
        /\ pc = "done" => args.score_before.num * ret.val.den <= ret.val.num * args.score_before.den

\* the part of C15 that holds: a score that is returned lies in [0, 1] and
\* is not lower than the score before the field or the goal was added
MonotonicBoundedIfReturned ==
    (Scored /\ ret.ok) =>
        /\ 0 <= ret.val.num
        /\ ret.val.num <= ret.val.den
        /\ pc = "done" => args.score_before.num * ret.val.den <= ret.val.num * args.score_before.den

\* a Goal with title and category was appended to data that had a score,
\* and the scorer raised
C15_WitnessGoalRaises ==
    /\ Scored
    /\ pc = "done"
    /\ args.score_before.num > 0
    /\ args.extracted_data.goals.kind = "list"
    /\ args.extracted_data.goals.elems[Len(args.extracted_data.goals.elems)] = GOAL_OBJECT_CAR
    /\ ret = Raised("AttributeError")

\* a goal with title and category was added to goals of which one lacks a
\* title, and the score rose
C15_Witness ==
    /\ Scored
    /\ pc = "done"
    /\ args.before.goals.kind = "list"
    /\ Len(args.before.goals.elems) = 2
    /\ Len(args.extracted_data.goals.elems) = 3
    /\ ret.ok
    /\ args.score_before.num * ret.val.den < ret.val.num * args.score_before.den
    /\ args.before.personalInfo.kind = "dict"
    /\ args.before.financialInfo.kind = "dict"

\* a field was added to a personalInfo of five counted fields, the score
\* stayed at the cap of its term
C15_WitnessCap ==
    /\ Scored
    /\ pc = "done"
    /\ args.before.personalInfo.kind = "dict"
    /\ Len(args.before.personalInfo.items) = 5
    /\ Len(args.extracted_data.personalInfo.items) = 6
    /\ args.score_before = ret.val
    /\ ret.val.num > 0

-----------------------------------------------------------------------------
(* Conversation turn with persistence,                                     *)
(* firebase_integration_example.py:28-147.  The profile store is reached   *)
(* through _make_firebase_request; the chain is chat_model.chat_chain.     *)

EP_CONTEXT == "getAIConversationContext"
EP_UPDATE == "updateUserDataFromAI"
EP_LOG == "logAIConversation"
EP_MERGE == "mergeFinancialDataFromAI"

\* outcomes of one request to the store, lines 38-39: the reply and its
\* "success", or an exception of requests.post (the request did not reach
\* the store) or of response.json() (it did)
StoreReply(success) == [kind |-> "reply", success |-> success]
StoreRaisedPost == [kind |-> "raised", delivered |-> FALSE]
StoreRaisedJson == [kind |-> "raised", delivered |-> TRUE]
StoreOutcomes == {StoreReply(TRUE), StoreReply(FALSE), StoreRaisedPost, StoreRaisedJson}

RECURSIVE JsonSerialisable(_)
\* line 38, requests.post(url, json=...): json.dumps accepts None, bool,
\* numbers, str, and lists, tuples and dicts of them with keys that are no
\* container; it raises TypeError for any other object (a Goal).  A value
\* without a kind is a score, a float.
JsonSerialisable(v) ==
    IF "kind" \notin DOMAIN v THEN TRUE
    ELSE CASE v.kind = "dict" ->
                \A i \in 1..Len(v.items) :
                   /\ v.items[i].k.kind \in {"str", "int", "float", "bool", "none"}
                   /\ JsonSerialisable(v.items[i].v)
           [] v.kind \in {"list", "tuple"} ->
                \A i \in 1..Len(v.elems) : JsonSerialisable(v.elems[i])
           [] v.kind = "object" -> FALSE
           [] OTHER -> TRUE

\* a request handed to requests.post and whether the store got it: not when
\* its data could not be serialised, and not when the transport failed
\* before sending
Request(endpoint, data, outcome) ==
    [endpoint |-> endpoint,
     data |-> data,
     delivered |-> (JsonSerialisable(data) /\ (outcome.kind = "reply" \/ outcome.delivered))]

\* _make_firebase_request, lines 28-39: the reply, or the exception
MakeFirebaseRequest(data, outcome) ==
    IF ~JsonSerialisable(data) THEN Raised("TypeError")
    ELSE IF outcome.kind = "reply" THEN Ok(outcome)
    ELSE Raised("RequestException")

S_PERSONAL_INFO == PyStr(<<"p","e","r","s","o","n","a","l","I","n","f","o">>)
S_FINANCIAL_INFO == PyStr(<<"f","i","n","a","n","c","i","a","l","I","n","f","o">>)
S_GOALS == PyStr(<<"g","o","a","l","s">>)
S_SOURCE == PyStr(<<"s","o","u","r","c","e">>)
S_CONFIDENCE == PyStr(<<"c","o","n","f","i","d","e","n","c","e">>)
RT1M_CHATBOT == PyStr(<<"r","t","1","m","_","c","h","a","t","b","o","t">>)

\* {k: v for k, v in info.items() if v is not None}
NotNoneItems(info) == PyDict(SelectSeq(info.items, LAMBDA it : it.v.kind # "none"))

\* [goal for goal in goals if goal and goal.get("title")]
TitledGoals(goals) ==
    PyList(SelectSeq(goals.elems, LAMBDA g : Truthy(g) /\ Truthy(DictGet(g, KEY_TITLE))))

\* lines 118-136
CleanData(extracted_data) ==
    (IF Truthy(extracted_data.personalInfo)
     THEN <<Item(S_PERSONAL_INFO, NotNoneItems(extracted_data.personalInfo))>> ELSE <<>>)
    \o (IF Truthy(extracted_data.financialInfo)
        THEN <<Item(S_FINANCIAL_INFO, NotNoneItems(extracted_data.financialInfo))>> ELSE <<>>)
    \o (IF Truthy(extracted_data.goals)
        THEN <<Item(S_GOALS, TitledGoals(extracted_data.goals))>> ELSE <<>>)

\* lines 133-136, "goal and goal.get(...)": an element that is falsy (None,
\* "", 0, {}) is skipped before .get is reached; on an element that is truthy
\* and no dict (a Goal object, a str, a number) .get raises
GoalIsNoMapping(goals) ==
    /\ Truthy(goals)
    /\ \E i \in 1..Len(goals.elems) :
          Truthy(goals.elems[i]) /\ goals.elems[i].kind # "dict"

\* _save_ai_data_to_firebase, lines 113-147 (the sessionId of the request is
\* left out): its result and the requests it issued
save_ai_data_to_firebase(extracted_data, confidence, outcome) ==
    IF \* lines 122 and 128: a section that is kept and has no items()
       \/ Truthy(extracted_data.personalInfo) /\ extracted_data.personalInfo.kind # "dict"
       \/ Truthy(extracted_data.financialInfo) /\ extracted_data.financialInfo.kind # "dict"
       \/ GoalIsNoMapping(extracted_data.goals)
    THEN [result |-> Raised("AttributeError"), requests |-> <<>>]
    ELSE IF CleanData(extracted_data) # <<>>
    THEN Only({[result |-> MakeFirebaseRequest(data, outcome),
                requests |-> <<Request(EP_UPDATE, data, outcome)>>] :
                 data \in {PyDict(CleanData(extracted_data)
                                  \o <<Item(S_SOURCE, RT1M_CHATBOT),
                                       Item(S_CONFIDENCE, confidence)>>)}})
    ELSE [result |-> Ok(StoreReply(FALSE)), requests |-> <<>>]

\* any(extracted_data.values())
AnySection(extracted_data) ==
    \/ Truthy(extracted_data.personalInfo)
    \/ Truthy(extracted_data.financialInfo)
    \/ Truthy(extracted_data.goals)

\* the gate with a threshold of 0.3
SaveGateLowThreshold(confidence, extracted_data) ==
    RatLess(Rat(3, 10), confidence) /\ AnySection(extracted_data)

\* line 82: confidence > 0.5 and any(extracted_data.values())
SaveGateStrict(confidence, extracted_data) ==
    RatLess(Rat(1, 2), confidence) /\ AnySection(extracted_data)

ERROR_TURN_MESSAGE ==
    <<"I","'","m"," ","s","o","r","r","y",","," ","I"," ","e","n","c","o","u","n","t","e","r","e","d"," ",
      "a","n"," ","e","r","r","o","r","."," ","P","l","e","a","s","e"," ","t","r","y"," ",
      "a","g","a","i","n",".">>

\* what process_conversation returns
Turn(ai_message, extracted_data, confidence, data_saved) ==
    [ai_message |-> ai_message,
     extracted_data |-> extracted_data,
     confidence |-> confidence,
     data_saved |-> data_saved]

\* lines 104-111
ErrorTurn == Turn(ERROR_TURN_MESSAGE, PyDict(<<>>), Rat(0, 1), FALSE)

\* _log_conversation, lines 149-163: the log request, its failure swallowed.
\* The payload is userMessage, aiResponse, the whole extraction and the
\* score (its sessionId and timestamp are left out).
LogRequest(user_message, ai_response, extracted_data, confidence, outcome) ==
    Request(EP_LOG,
            PyDict(<<Item(PyStr(<<"u","s","e","r","M","e","s","s","a","g","e">>), user_message),
                     Item(PyStr(<<"a","i","R","e","s","p","o","n","s","e">>), PyStr(ai_response.message)),
                     Item(PyStr(<<"e","x","t","r","a","c","t","e","d","D","a","t","a">>),
                          PyDict(<<Item(S_PERSONAL_INFO, extracted_data.personalInfo),
                                   Item(S_FINANCIAL_INFO, extracted_data.financialInfo),
                                   Item(S_GOALS, extracted_data.goals)>>)),
                     Item(S_CONFIDENCE, confidence)>>),
            outcome)

\* replies of the store to getAIConversationContext: the "data" they carry
ContextData == {PyDict(<<>>), PyDict(<<Item(KEY_AGE, PyInt(30))>>), PyNone}

\* get_user_context, lines 41-52: one request; the data of a reply that
\* reports success, and {} for any other reply and for an exception
get_user_context(outcome, data) ==
    [val |-> IF outcome.kind = "reply" /\ outcome.success THEN data ELSE PyDict(<<>>),
     requests |-> <<Request(EP_CONTEXT, PyDict(<<>>), outcome)>>]

\* example_smart_financial_update, lines 224-244: one request to the merge
\* endpoint with a fixed confidence of 0.9; no score is computed and no gate
\* is applied, and an exception of the request is not handled
example_smart_financial_update(outcome) ==
    [result |-> IF outcome.kind = "reply" THEN Ok(PyNone) ELSE Raised("RequestException"),
     requests |-> <<Request(EP_MERGE,
                            PyDict(<<Item(PyStr(<<"f","i","n","a","n","c","i","a","l","U","p","d","a","t","e","s">>),
                                          PyDict(<<Item(PyStr(<<"a","n","n","u","a","l","I","n","c","o","m","e">>), PyInt(75000)),
                                                   Item(PyStr(<<"c","u","r","r","e","n","t","S","a","v","i","n","g","s">>), PyInt(15000))>>)),
                                     Item(S_CONFIDENCE, Rat(9, 10)),
                                     Item(S_SOURCE, RT1M_CHATBOT)>>),
                            outcome)>>]

\* process_conversation, lines 54-111: the turn it returns and the requests
\* it issued to the store.  ai is the outcome of chat_chain.invoke.
process_conversation(user_message, context_outcome, ai, save_outcome, log_outcome) ==
    LET \* line 60: the context is fetched and not used
        context == get_user_context(context_outcome, PyDict(<<>>)).requests
    IN IF ai.kind # "result"
       THEN [val |-> ErrorTurn, requests |-> context]
       ELSE
         LET ai_response == ai.val
             extracted_data == ExtractedData(ai_response.personalInfo,
                                             ai_response.financialInfo,
                                             ai_response.goals)
             confidence == calculate_confidence(extracted_data)
         IN IF ~confidence.ok
            THEN [val |-> ErrorTurn, requests |-> context]
            ELSE
              LET gate == SaveGateStrict(confidence.val, extracted_data)
                  saved == IF gate
                           THEN save_ai_data_to_firebase(extracted_data, confidence.val, save_outcome)
                           ELSE [result |-> Ok(StoreReply(FALSE)), requests |-> <<>>]
              IN IF ~saved.result.ok
                 THEN [val |-> ErrorTurn, requests |-> context \o saved.requests]
                 ELSE [val |-> Turn(ai_response.message, extracted_data, confidence.val, gate),
                       requests |-> context \o saved.requests
                                    \o <<LogRequest(user_message, ai_response,
                                                    extracted_data, confidence.val,
                                                    log_outcome)>>]

TurnPersonalInfos ==
    {PyNone, PyDict(<<>>),
     InfoOf(2, 0, 0, PyInt(30), PyStr(<<>>)),
     InfoOf(4, 1, 0, PyInt(30), PyStr(<<>>)),
     InfoOf(5, 0, 0, PyInt(30), PyStr(<<>>))}

TurnFinancialInfos ==
    {PyNone,
     InfoOf(0, 1, 0, PyFloat(2), PyFloat(0)),
     InfoOf(2, 0, 0, PyFloat(2), PyFloat(0)),
     InfoOf(3, 1, 0, PyFloat(2), PyFloat(0)),
     InfoOf(4, 0, 0, PyFloat(2), PyFloat(0))}

TurnGoals == {PyNone, PyList(<<>>), PyList(<<GOAL_OBJECT>>)}

\* what chat_chain.invoke does: raises, or returns a parsed ChatResponse
TurnOutcomes ==
    {LLMError, LLMMalformed}
    \cup {LLMReturn(ChatResponse(M_REPLY, p, f, g)) :
            p \in TurnPersonalInfos, f \in TurnFinancialInfos, g \in TurnGoals}

TurnMessages == {PyStr(<<"h","i">>), PyStr(<<"I"," ","a","m"," ","3","0">>)}

\* process_conversation, lines 54-111, in the steps at which the code waits:
\* the context request (line 60), chat_chain.invoke (66-69), the write and
\* the log request (83-86, 90-95), and the return (97-111).  args records
\* the message and what the collaborators answer in this turn.

\* line 60: the turn starts and the context request is issued
CallProcessConversation ==
    /\ pc = "idle"
    /\ \E user_message \in TurnMessages, ai \in TurnOutcomes,
          context_outcome \in StoreOutcomes, save_outcome \in StoreOutcomes,
          log_outcome \in StoreOutcomes :
          /\ op' = "process_conversation"
          /\ args' = [user_message |-> user_message, ai |-> ai,
                      context_outcome |-> context_outcome,
                      save_outcome |-> save_outcome,
                      log_outcome |-> log_outcome]
          /\ store' = [store EXCEPT
                         !.requests = get_user_context(context_outcome, PyDict(<<>>)).requests]
    /\ pc' = "context"
    /\ UNCHANGED <<handlers, twin, ret, log, calls, routing_decision, general_response,
                   full_response, llm>>

\* lines 66-69: chat_chain.invoke is called once, in every turn
ConversationInvoke ==
    /\ pc = "context"
    /\ op = "process_conversation"
    /\ calls' = [calls EXCEPT !.llm = @ + 1]
    /\ llm' = [llm EXCEPT !.chat = args.ai]
    /\ pc' = "invoked"
    /\ UNCHANGED <<handlers, twin, op, args, ret, log, routing_decision, general_response,
                   full_response, store>>

\* lines 83-86 and 90-95: the next request of the turn is issued
ConversationRequest ==
    /\ pc = "invoked"
    /\ op = "process_conversation"
    /\ \E r \in {process_conversation(args.user_message, args.context_outcome, args.ai,
                                   args.save_outcome, args.log_outcome)} :
          /\ Len(store.requests) < Len(r.requests)
          /\ store' = [store EXCEPT
                         !.requests = Append(@, r.requests[Len(store.requests) + 1])]
    /\ UNCHANGED <<handlers, twin, pc, op, args, ret, log, calls, routing_decision,
                   general_response, full_response, llm>>

\* lines 97-102 and 104-111: the turn returns
ConversationReturn ==
    /\ pc = "invoked"
    /\ op = "process_conversation"
    /\ \E r \in {process_conversation(args.user_message, args.context_outcome, args.ai,
                                   args.save_outcome, args.log_outcome)} :
          /\ Len(store.requests) = Len(r.requests)
          /\ ret' = Ok(r.val)
    /\ pc' = "done"
    /\ UNCHANGED <<handlers, twin, op, args, log, calls, routing_decision, general_response,
                   full_response, llm, store>>

\* get_user_context called on its own
CallGetUserContext ==
    /\ pc = "idle"
    /\ \E outcome \in StoreOutcomes, data \in ContextData :
          \E r \in {get_user_context(outcome, data)} :
             /\ op' = "get_user_context"
             /\ args' = [outcome |-> outcome, data |-> data]
             /\ ret' = Ok(r.val)
             /\ store' = [store EXCEPT !.requests = r.requests]
    /\ pc' = "done"
    /\ UNCHANGED <<handlers, twin, log, calls, routing_decision, general_response,
                   full_response, llm>>

CallSmartFinancialUpdate ==
    /\ pc = "idle"
    /\ \E outcome \in StoreOutcomes :
          \E r \in {example_smart_financial_update(outcome)} :
             /\ op' = "example_smart_financial_update"
             /\ args' = [outcome |-> outcome]
             /\ ret' = r.result
             /\ store' = [store EXCEPT !.requests = r.requests]
    /\ pc' = "done"
    /\ UNCHANGED <<handlers, twin, log, calls, routing_decision, general_response,
                   full_response, llm>>

SpecConversation ==
    Init /\ [][CallProcessConversation \/ ConversationInvoke \/ ConversationRequest
               \/ ConversationReturn \/ CallGetUserContext
               \/ CallSmartFinancialUpdate]_vars

-----------------------------------------------------------------------------
(* C16 *)

ConversationDone == op = "process_conversation" /\ pc = "done"

\* a write of extracted data was issued to the profile store
WriteIssued == \E i \in 1..Len(store.requests) : store.requests[i].endpoint = EP_UPDATE

\* the turn's score is above 0.5 and a section is non-empty
GatePassed ==
    /\ args.ai.kind = "result"
    /\ LET d == ExtractedData(args.ai.val.personalInfo, args.ai.val.financialInfo,
                              args.ai.val.goals)
       IN /\ AnySection(d)
          /\ calculate_confidence(d).ok
          /\ RatLess(Rat(1, 2), calculate_confidence(d).val)

\* a write to the profile store is issued only in a turn whose gate passed
WriteOnlyIfGated == ConversationDone => (WriteIssued => GatePassed)

\* C16: in a conversation turn a write to the profile store is issued only
\* if the score is above 0.5 and a section is non-empty, and the data_saved
\* flag of the turn is true exactly when that gate passed.
C16_GatedPersistence ==
    ConversationDone =>
        /\ WriteIssued => GatePassed
        /\ ret.val.data_saved <=> GatePassed

\* the gate passed and the write was issued
C16_Witness ==
    /\ ConversationDone
    /\ GatePassed
    /\ WriteIssued
    /\ ret.val.data_saved

-----------------------------------------------------------------------------
(* Plan Generator, generate_plan.py, and its handler, plan_handler.py.     *)

\* generate_plan.py:16-19
MAX_STEPS == 10
MAX_MILESTONES == 10
MAX_PLAN_TITLE_LENGTH == 100
MAX_STEP_DESCRIPTION_LENGTH == 500

S_STEPS == PyStr(<<"s","t","e","p","s">>)
S_MILESTONES == PyStr(<<"m","i","l","e","s","t","o","n","e","s">>)
S_DESCRIPTION == PyStr(<<"d","e","s","c","r","i","p","t","i","o","n">>)
S_DURATION == PyStr(<<"d","u","r","a","t","i","o","n">>)
S_TARGET_DATE == PyStr(<<"t","a","r","g","e","t","_","d","a","t","e">>)

\* generate_plan.py:36-40: a step that is a dict with a description longer
\* than the limit
StepTooLong(step) ==
    /\ step.kind = "dict"
    /\ HasKey(step, S_DESCRIPTION)
    /\ Len(PyStrOf(DictGet(step, S_DESCRIPTION))) > MAX_STEP_DESCRIPTION_LENGTH

\* generate_plan.py:31-52: the checks without the check of the number of steps
PlanChecksNoStepCount(sanitized_plan) ==
    LET steps == DictGet(sanitized_plan, S_STEPS)
        milestones == DictGet(sanitized_plan, S_MILESTONES)
        title == DictGet(sanitized_plan, S_TITLE)
    IN IF /\ steps.kind = "list"
          /\ \E i \in 1..Len(steps.elems) : StepTooLong(steps.elems[i])
       THEN Violation("step_description_too_long")
       ELSE IF milestones.kind = "list" /\ Len(milestones.elems) > MAX_MILESTONES
       THEN Violation("too_many_milestones")
       ELSE IF title.kind = "str" /\ Len(title.str) > MAX_PLAN_TITLE_LENGTH
       THEN Violation("title_too_long")
       ELSE Ok(sanitized_plan)

\* generate_plan.py:31-52: the plan-specific validations of a sanitized plan
\* (DictGet gives None for a missing key, which is no list and no str)
PlanChecks(sanitized_plan) ==
    LET steps == DictGet(sanitized_plan, S_STEPS)
        milestones == DictGet(sanitized_plan, S_MILESTONES)
        title == DictGet(sanitized_plan, S_TITLE)
    IN IF steps.kind = "list" /\ Len(steps.elems) > MAX_STEPS
       THEN Violation("too_many_steps")
       ELSE IF /\ steps.kind = "list"
               /\ \E i \in 1..Len(steps.elems) : StepTooLong(steps.elems[i])
       THEN Violation("step_description_too_long")
       ELSE IF milestones.kind = "list" /\ Len(milestones.elems) > MAX_MILESTONES
       THEN Violation("too_many_milestones")
       ELSE IF title.kind = "str" /\ Len(title.str) > MAX_PLAN_TITLE_LENGTH
       THEN Violation("title_too_long")
       ELSE Ok(sanitized_plan)

\* generate_plan.py:23-52
validate_plan_response(parsed_plan) ==
    IF parsed_plan.kind # "dict" THEN Violation("not_dict")
    ELSE Only({IF sanitized.ok THEN PlanChecks(sanitized.val) ELSE sanitized :
                 sanitized \in {sanitize_dict(parsed_plan, MAX_JSON_SIZE)}})

FallbackStep(title, description, duration) ==
    PyDict(<<Item(S_TITLE, PyStr(title)), Item(S_DESCRIPTION, PyStr(description)),
             Item(S_DURATION, PyStr(duration))>>)

\* generate_plan.py:54-82
create_fallback_plan ==
    PyDict(<<
      Item(S_TITLE, PyStr(<<"F","i","n","a","n","c","i","a","l"," ","P","l","a","n","n","i","n","g"," ","G","u","i","d","e">>)),
      Item(S_STEPS, PyList(<<
        FallbackStep(<<"A","s","s","e","s","s","m","e","n","t">>,
                     <<"R","e","v","i","e","w"," ","y","o","u","r"," ","c","u","r","r","e","n","t"," ","f","i","n","a","n","c","i","a","l"," ","s","i","t","u","a","t","i","o","n"," ","a","n","d"," ","g","o","a","l","s">>,
                     <<"1"," ","w","e","e","k">>),
        FallbackStep(<<"P","l","a","n","n","i","n","g">>,
                     <<"C","r","e","a","t","e"," ","a"," ","d","e","t","a","i","l","e","d"," ","f","i","n","a","n","c","i","a","l"," ","p","l","a","n"," ","b","a","s","e","d"," ","o","n"," ","y","o","u","r"," ","a","s","s","e","s","s","m","e","n","t">>,
                     <<"2"," ","w","e","e","k","s">>),
        FallbackStep(<<"I","m","p","l","e","m","e","n","t","a","t","i","o","n">>,
                     <<"B","e","g","i","n"," ","i","m","p","l","e","m","e","n","t","i","n","g"," ","y","o","u","r"," ","f","i","n","a","n","c","i","a","l"," ","p","l","a","n"," ","s","t","e","p"," ","b","y"," ","s","t","e","p">>,
                     <<"O","n","g","o","i","n","g">>)>>)),
      Item(S_MILESTONES, PyList(<<
        PyDict(<<Item(S_TITLE, PyStr(<<"P","l","a","n"," ","C","r","e","a","t","e","d">>)),
                 Item(S_DESCRIPTION, PyStr(<<"C","o","m","p","l","e","t","e"," ","y","o","u","r"," ","i","n","i","t","i","a","l"," ","f","i","n","a","n","c","i","a","l"," ","p","l","a","n">>)),
                 Item(S_TARGET_DATE, PyStr(<<"1"," ","m","o","n","t","h">>))>>)>>))>>)

RECURSIVE ReprLen(_), ReprSeqLen(_), ReprItemsLen(_)
\* len(str(v)) of a value whose strings hold no quote, backslash or control
\* character
ReprLen(v) ==
    CASE v.kind = "str" -> Len(v.str) + 2
      [] v.kind = "int" -> Len(IntToStr(v.num))
      [] v.kind = "float" -> Len(IntToStr(v.num)) + 2
      [] v.kind = "bool" -> IF v.bool THEN 4 ELSE 5
      [] v.kind = "none" -> 4
      [] v.kind = "list" -> 2 + ReprSeqLen(v.elems)
      [] v.kind = "dict" -> 2 + ReprItemsLen(v.items)

ReprSeqLen(xs) ==
    IF Len(xs) = 0 THEN 0
    ELSE ReprLen(Head(xs)) + (IF Len(xs) > 1 THEN 2 ELSE 0) + ReprSeqLen(Tail(xs))

ReprItemsLen(items) ==
    IF Len(items) = 0 THEN 0
    ELSE ReprLen(Head(items).k) + 2 + ReprLen(Head(items).v)
         + (IF Len(items) > 1 THEN 2 ELSE 0) + ReprItemsLen(Tail(items))

\* generate_plan_prompt.py:2-15: the characters of the prompt around the
\* three values it embeds
PROMPT_TEMPLATE_LENGTH == 241

\* len(get_generate_plan_prompt(user_profile, goal_data, format_instructions))
PromptLength(user_profile, goal_data, format_instructions) ==
    PROMPT_TEMPLATE_LENGTH + Len(format_instructions.str)
    + ReprLen(user_profile) + ReprLen(goal_data)

\* outcomes of the plan chain: llm.invoke raised; or it returned a response
\* with this content (None: no response), on which plan_parser.parse and
\* model_dump gave this plan or raised
PlanLLMRaised == [kind |-> "error"]
PlanLLMResponse(content, parsed) == [kind |-> "result", val |-> content, parsed |-> parsed]

\* what generate_plan did: returned or raised, the events it logged, the LLM
\* calls it made
PlanOutcome(r, events, llm_calls) == [ret |-> r, events |-> events, llm_calls |-> llm_calls]

\* the security handler raising again without logging
PlanViolationUnlogged(r, llm_calls) == PlanOutcome(r, <<>>, llm_calls)

\* generate_plan.py:122-126
PlanViolation(r, llm_calls) == PlanOutcome(r, <<"plan_security_violation">>, llm_calls)

\* generate_plan.py:128-133
PlanFallback(llm_calls) == PlanOutcome(Ok(create_fallback_plan), <<"plan_generation_error">>, llm_calls)

\* generate_plan absorbing a rejected plan into the fallback plan
generate_plan_absorb_violation(user_profile, goal_data, format_instructions, outcome) ==
    Only({
      IF ~validated_profile.ok THEN PlanViolation(validated_profile, 0)
      ELSE Only({
        IF ~validated_goal.ok THEN PlanViolation(validated_goal, 0)
        ELSE IF PromptLength(validated_profile.val, validated_goal.val, format_instructions)
                  > MAX_INPUT_LENGTH * 2
        THEN PlanViolation(Violation("prompt_too_large"), 0)
        ELSE IF outcome.kind # "result" THEN PlanFallback(1)
        ELSE IF ~Truthy(outcome.val) THEN PlanViolation(Violation("empty_response"), 1)
        ELSE IF ~outcome.parsed.ok THEN PlanFallback(1)
        ELSE Only({IF sanitized_plan.ok THEN PlanOutcome(sanitized_plan, <<>>, 1)
                   ELSE PlanFallback(1) :
                     sanitized_plan \in {validate_plan_response(outcome.parsed.val)}}) :
          validated_goal \in {sanitize_dict(goal_data, MAX_INPUT_LENGTH)}}) :
        validated_profile \in {sanitize_dict(user_profile, MAX_INPUT_LENGTH)}})

\* generate_plan.py:84-133
generate_plan(user_profile, goal_data, format_instructions, outcome) ==
    Only({
      IF ~validated_profile.ok THEN PlanViolation(validated_profile, 0)
      ELSE Only({
        IF ~validated_goal.ok THEN PlanViolation(validated_goal, 0)
        ELSE IF PromptLength(validated_profile.val, validated_goal.val, format_instructions)
                  > MAX_INPUT_LENGTH * 2
        THEN PlanViolation(Violation("prompt_too_large"), 0)
        ELSE IF outcome.kind # "result"
        THEN \* lines 101-106: RuntimeError, then except Exception
             PlanFallback(1)
        ELSE IF ~Truthy(outcome.val)
        THEN \* lines 109-110
             PlanViolation(Violation("empty_response"), 1)
        ELSE IF ~outcome.parsed.ok
        THEN \* line 112 raised: except Exception
             PlanFallback(1)
        ELSE Only({IF sanitized_plan.ok THEN PlanOutcome(sanitized_plan, <<>>, 1)
                   ELSE PlanViolation(sanitized_plan, 1) :
                     sanitized_plan \in {validate_plan_response(outcome.parsed.val)}}) :
          validated_goal \in {sanitize_dict(goal_data, MAX_INPUT_LENGTH)}}) :
        validated_profile \in {sanitize_dict(user_profile, MAX_INPUT_LENGTH)}})

\* plan_handler.py:3-9: what the handler returns for an outcome of
\* generate_plan
PlanReply(r) ==
    IF r.ok THEN [success |-> TRUE, plan |-> r.val]
    ELSE [success |-> FALSE, error |-> r.why]

handle_plan_request(user_profile, goal_data, format_instructions, outcome) ==
    Only({PlanOutcome(Ok(PlanReply(g.ret)), g.events, g.llm_calls) :
            g \in {generate_plan(user_profile, goal_data, format_instructions, outcome)}})

-----------------------------------------------------------------------------
(* Plan calls.  A parsed plan is the model_dump() of a Plan,               *)
(* plan_schema.py:4-42.                                                    *)

\* plan_schema.py:4-13
PlanStepOf(i, description) ==
    PyDict(<<Item(PyStr(<<"i","d">>), PyStr(<<"s">> \o IntToStr(i))),
             Item(S_TITLE, PyStr(<<"S","t","e","p">>)),
             Item(S_DESCRIPTION, description),
             Item(PyStr(<<"o","r","d","e","r">>), PyInt(i)),
             Item(PyStr(<<"t","i","m","e","f","r","a","m","e">>), PyStr(<<"1"," ","w","e","e","k">>)),
             Item(PyStr(<<"c","o","m","p","l","e","t","e","d">>), PyBool(FALSE)),
             Item(PyStr(<<"d","u","e","D","a","t","e">>), PyNone),
             Item(PyStr(<<"c","o","s","t">>), PyNone),
             Item(PyStr(<<"r","e","s","o","u","r","c","e","s">>), PyNone)>>)

\* plan_schema.py:15-22
PlanMilestoneOf(i) ==
    PyDict(<<Item(PyStr(<<"i","d">>), PyStr(<<"m">> \o IntToStr(i))),
             Item(S_TITLE, PyStr(<<"G","o","a","l">>)),
             Item(S_DESCRIPTION, PyStr(<<"S","a","v","e"," ","e","a","c","h"," ","m","o","n","t","h">>)),
             Item(PyStr(<<"t","a","r","g","e","t","A","m","o","u","n","t">>), PyNone),
             Item(PyStr(<<"t","a","r","g","e","t","D","a","t","e">>), PyStr(<<"1"," ","y","e","a","r">>)),
             Item(PyStr(<<"c","o","m","p","l","e","t","e","d">>), PyBool(FALSE)),
             Item(PyStr(<<"c","o","m","p","l","e","t","e","d","D","a","t","e">>), PyNone)>>)

\* plan_schema.py:30-42: a plan of n steps, the first with this description,
\* and m milestones
PlanOf(title, n, description, m) ==
    PyDict(<<Item(S_TITLE, title),
             Item(S_DESCRIPTION, PyStr(<<"S","a","v","e"," ","e","a","c","h"," ","m","o","n","t","h">>)),
             Item(PyStr(<<"t","i","m","e","f","r","a","m","e">>), PyStr(<<"1"," ","y","e","a","r">>)),
             Item(S_CATEGORY, PyStr(<<"s","a","v","i","n","g","s">>)),
             Item(PyStr(<<"p","r","i","o","r","i","t","y">>), PyStr(<<"h","i","g","h">>)),
             Item(S_STEPS,
                  PyList(AsTuple([i \in 1..n |->
                                    PlanStepOf(i, IF i = 1 THEN description
                                                  ELSE PyStr(<<"S","a","v","e"," ","e","a","c","h"," ","m","o","n","t","h">>))], n))),
             Item(S_MILESTONES, PyList(AsTuple([i \in 1..m |-> PlanMilestoneOf(i)], m))),
             Item(PyStr(<<"e","s","t","i","m","a","t","e","d","C","o","s","t">>), PyNone),
             Item(PyStr(<<"e","x","p","e","c","t","e","d","R","e","t","u","r","n">>), PyNone),
             Item(PyStr(<<"r","i","s","k","L","e","v","e","l">>), PyStr(<<"l","o","w">>)),
             Item(PyStr(<<"p","r","e","r","e","q","u","i","s","i","t","e","s">>), PyNone),
             Item(PyStr(<<"r","e","s","o","u","r","c","e","s">>), PyNone)>>)

\* a text of n characters in words of four letters, none of them a blank at
\* either end when n is a multiple of 5 or one more
Words(n) == AsTuple([i \in 1..n |-> IF i % 5 = 3 THEN " " ELSE "x"], n)

\* texts at a length limit: short, of the limit with up to MaxPad trailing
\* blanks, and one character over the limit
TextsAround(limit) ==
    {PyStr(<<"S","a","v","e">>), PyStr(Words(limit + 1))}
    \cup {PyStr(Words(limit) \o Pad(p)) : p \in 0..MaxPad}

\* numbers of steps and of milestones at the limits
PlanSizes == {<<1, 0>>, <<MAX_STEPS, MAX_MILESTONES>>,
              <<MAX_STEPS + 1, MAX_MILESTONES>>, <<MAX_STEPS, MAX_MILESTONES + 1>>}

\* titles and descriptions: one of them around its limit, or both at it
PlanTexts ==
    {<<title, PyStr(<<"S","a","v","e">>)>> : title \in TextsAround(MAX_PLAN_TITLE_LENGTH)}
    \cup {<<PyStr(<<"S","a","v","e">>), description>> :
             description \in TextsAround(MAX_STEP_DESCRIPTION_LENGTH)}
    \cup {<<PyStr(Words(MAX_PLAN_TITLE_LENGTH)), PyStr(Words(MAX_STEP_DESCRIPTION_LENGTH))>>}

ParsedPlans ==
    {PlanOf(t[1], n[1], t[2], n[2]) : t \in PlanTexts, n \in PlanSizes}

PLAN_CONTENT == PyStr(<<"{",".",".",".","}">>)

\* what the plan chain does: llm.invoke raises, returns nothing or an empty
\* content, or a content that plan_parser.parse rejects or parses
PlanOutcomes ==
    {PlanLLMRaised,
     PlanLLMResponse(PyNone, Raised("OutputParserException")),
     PlanLLMResponse(PyStr(<<>>), Raised("OutputParserException")),
     PlanLLMResponse(PLAN_CONTENT, Raised("OutputParserException"))}
    \cup {PlanLLMResponse(PLAN_CONTENT, Ok(plan)) : plan \in ParsedPlans}

\* a few of them, one of each kind
SomePlanOutcomes ==
    {PlanLLMRaised,
     PlanLLMResponse(PyStr(<<>>), Raised("OutputParserException")),
     PlanLLMResponse(PLAN_CONTENT, Raised("OutputParserException")),
     PlanLLMResponse(PLAN_CONTENT,
                     Ok(PlanOf(PyStr(<<"S","a","v","e">>), MAX_STEPS, PyStr(<<"S","a","v","e">>), MAX_MILESTONES))),
     PlanLLMResponse(PLAN_CONTENT,
                     Ok(PlanOf(PyStr(<<"S","a","v","e">>), MAX_STEPS + 1, PyStr(<<"S","a","v","e">>), 0)))}

PlanProfiles == {PROFILE_A, PyStr(<<"x">>), PyDict(<<Item(S_NAME, PyStr(<<"d","e","b","u","g"," ","m","o","d","e">>))>>)}
PlanGoals == {GoalDict(T_HOUSE, C_FINANCIAL), PyNone}

\* format_instructions: the text the output parser gives, here one that fits
\* the prompt limit and one that alone exceeds it
FormatInstructions == {PyStr(Rep("s", MAX_INPUT_LENGTH)), PyStr(Rep("s", MAX_INPUT_LENGTH * 2))}

PlanCall(user_profile, goal_data, format_instructions, outcome) ==
    [user_profile |-> user_profile, goal_data |-> goal_data,
     format_instructions |-> format_instructions, outcome |-> outcome]

\* the calls of the handler: every kind of outcome
HandlerCalls ==
    {PlanCall(p, g, f, o) :
        p \in PlanProfiles, g \in PlanGoals, f \in FormatInstructions, o \in SomePlanOutcomes}

PlanCalls ==
    {PlanCall(PROFILE_A, GoalDict(T_HOUSE, C_FINANCIAL), PyStr(Rep("s", MAX_INPUT_LENGTH)), o) :
        o \in PlanOutcomes}
    \cup HandlerCalls

CallValidatePlanResponse ==
    /\ pc = "idle"
    /\ \E parsed_plan \in ParsedPlans \cup {PyNone, create_fallback_plan} :
          \E r \in {validate_plan_response(parsed_plan)} :
             /\ op' = "validate_plan_response"
             /\ args' = [parsed_plan |-> parsed_plan]
             /\ ret' = r
    /\ pc' = "done"
    /\ UNCHANGED <<handlers, twin, store, log, calls, routing_decision, general_response, full_response, llm>>

CallGeneratePlan ==
    /\ pc = "idle"
    /\ \E c \in PlanCalls :
          \E r \in {generate_plan(c.user_profile, c.goal_data, c.format_instructions, c.outcome)} :
             /\ op' = "generate_plan"
             /\ args' = c
             /\ ret' = r.ret
             /\ log' = r.events
             /\ calls' = [calls EXCEPT !.llm = r.llm_calls]
    /\ pc' = "done"
    /\ UNCHANGED <<handlers, twin, store, routing_decision, general_response, full_response, llm>>

CallHandlePlanRequest ==
    /\ pc = "idle"
    /\ \E c \in HandlerCalls :
          \E r \in {handle_plan_request(c.user_profile, c.goal_data, c.format_instructions,
                                        c.outcome)} :
             /\ op' = "handle_plan_request"
             /\ args' = c
             /\ ret' = r.ret
             /\ log' = r.events
             /\ calls' = [calls EXCEPT !.llm = r.llm_calls]
    /\ pc' = "done"
    /\ UNCHANGED <<handlers, twin, store, routing_decision, general_response, full_response, llm>>

SpecPlan == Init /\ [][CallValidatePlanResponse \/ CallGeneratePlan \/ CallHandlePlanRequest]_vars

-----------------------------------------------------------------------------
(* C17, C18, C19 *)

GeneratePlanDone == op = "generate_plan" /\ pc = "done"
ValidatePlanDone == op = "validate_plan_response" /\ pc = "done"
HandlePlanDone == op = "handle_plan_request" /\ pc = "done"

\* the LLM returned a content that was parsed into a plan
PlanParsed ==
    /\ args.outcome.kind = "result"
    /\ Truthy(args.outcome.val)
    /\ args.outcome.parsed.ok

\* at most 10 steps, at most 10 milestones, step descriptions of at most 500
\* characters and a title of at most 100 characters
WithinPlanLimits(plan) ==
    /\ Len(DictGet(plan, S_STEPS).elems) <= 10
    /\ Len(DictGet(plan, S_MILESTONES).elems) <= 10
    /\ \A i \in 1..Len(DictGet(plan, S_STEPS).elems) :
          Len(DictGet(DictGet(plan, S_STEPS).elems[i], S_DESCRIPTION).str) <= 500
    /\ Len(DictGet(plan, S_TITLE).str) <= 100

\* the same, the title and the descriptions measured without the whitespace
\* around them
WithinPlanLimitsTrimmed(plan) ==
    /\ Len(DictGet(plan, S_STEPS).elems) <= 10
    /\ Len(DictGet(plan, S_MILESTONES).elems) <= 10
    /\ \A i \in 1..Len(DictGet(plan, S_STEPS).elems) :
          Len(strip(DictGet(DictGet(plan, S_STEPS).elems[i], S_DESCRIPTION).str)) <= 500
    /\ Len(strip(DictGet(plan, S_TITLE).str)) <= 100

\* C17 as stated: a parsed plan with more than 10 steps, more than 10
\* milestones, a step description over 500 characters or a title over 100
\* characters is rejected with a SecurityViolation, and every plan that
\* generate_plan returns is within these limits.
C17_SizeBounded ==
    /\ GeneratePlanDone =>
          /\ (PlanParsed /\ ~WithinPlanLimits(args.outcome.parsed.val)) => IsViolation(ret)
          /\ ret.ok => WithinPlanLimits(ret.val)
    /\ ValidatePlanDone =>
          /\ (args.parsed_plan.kind = "dict" /\ ~WithinPlanLimits(args.parsed_plan))
                => IsViolation(ret)
          /\ ret.ok => WithinPlanLimits(ret.val)

\* C17, amended: a parsed plan that exceeds a limit after its title and
\* descriptions are trimmed of surrounding whitespace is rejected with a
\* SecurityViolation, and every plan that generate_plan returns, from the
\* LLM or the fallback, has at most 10 steps, at most 10 milestones, step
\* descriptions of at most 500 characters and a title of at most 100.
C17_SizeBoundedTrimmed ==
    /\ GeneratePlanDone =>
          /\ (PlanParsed /\ ~WithinPlanLimitsTrimmed(args.outcome.parsed.val)) => IsViolation(ret)
          /\ ret.ok => WithinPlanLimits(ret.val)
    /\ ValidatePlanDone =>
          /\ (args.parsed_plan.kind = "dict" /\ ~WithinPlanLimitsTrimmed(args.parsed_plan))
                => IsViolation(ret)
          /\ ret.ok => WithinPlanLimits(ret.val)

\* a parsed plan of 11 steps was rejected
C17_Witness ==
    /\ GeneratePlanDone
    /\ PlanParsed
    /\ Len(DictGet(args.outcome.parsed.val, S_STEPS).elems) = 11
    /\ Len(DictGet(args.outcome.parsed.val, S_MILESTONES).elems) = 10
    /\ IsViolation(ret)
    /\ calls.llm = 1

\* a parsed plan at every limit was returned
C17_WitnessAtLimit ==
    /\ GeneratePlanDone
    /\ PlanParsed
    /\ ret.ok
    /\ Len(DictGet(ret.val, S_STEPS).elems) = 10
    /\ Len(DictGet(ret.val, S_MILESTONES).elems) = 10
    /\ Len(DictGet(DictGet(ret.val, S_STEPS).elems[1], S_DESCRIPTION).str) = 500
    /\ Len(DictGet(ret.val, S_TITLE).str) = 100

\* the titles of the steps of a plan, in order
StepTitles(plan) ==
    [i \in 1..Len(DictGet(plan, S_STEPS).elems) |->
        DictGet(DictGet(plan, S_STEPS).elems[i], S_TITLE).str]

\* the validated LLM plan was returned, nothing logged
OutcomeLLMPlan ==
    /\ ret.ok
    /\ log = <<>>
    /\ PlanParsed
    /\ ret = validate_plan_response(args.outcome.parsed.val)

\* the fallback plan was returned, the error logged
OutcomeFallback ==
    /\ ret.ok
    /\ log = <<"plan_generation_error">>
    /\ ret.val = create_fallback_plan
    /\ StepTitles(ret.val) = <<<<"A","s","s","e","s","s","m","e","n","t">>,
                               <<"P","l","a","n","n","i","n","g">>,
                               <<"I","m","p","l","e","m","e","n","t","a","t","i","o","n">>>>
    /\ Len(DictGet(ret.val, S_MILESTONES).elems) = 1

\* SecurityViolation was raised, the security event logged
OutcomeReraised ==
    /\ IsViolation(ret)
    /\ log = <<"plan_security_violation">>

\* C18: generate_plan ends in exactly one of three ways: it returns the
\* validated LLM plan, only when nothing failed; it returns the fallback
\* plan of the steps Assessment, Planning, Implementation and one milestone,
\* when the LLM call or the parser raised and only then; or it logs a
\* security event and raises SecurityViolation, as it does for a parsed plan
\* over a size limit.  The handler answers success=false without a plan
\* exactly when SecurityViolation was raised.
C18_ThreeOutcomes ==
    /\ GeneratePlanDone =>
          /\ OutcomeLLMPlan \/ OutcomeFallback \/ OutcomeReraised
          /\ ~(OutcomeLLMPlan /\ OutcomeFallback)
          /\ OutcomeFallback =>
                (args.outcome.kind = "error" \/ ~args.outcome.parsed.ok)
          /\ (calls.llm = 1 /\ args.outcome.kind = "error") => OutcomeFallback
          /\ (calls.llm = 1 /\ args.outcome.kind = "result" /\ Truthy(args.outcome.val)
                /\ ~args.outcome.parsed.ok) => OutcomeFallback
          /\ (PlanParsed /\ ~WithinPlanLimitsTrimmed(args.outcome.parsed.val))
                => OutcomeReraised
    /\ HandlePlanDone =>
          /\ ret.ok
          /\ ret.val.success <=> log # <<"plan_security_violation">>
          /\ ret.val.success <=> "plan" \in DOMAIN ret.val

\* the parser raised and the fallback plan was returned
C18_Witness ==
    /\ GeneratePlanDone
    /\ args.outcome.kind = "result"
    /\ ~args.outcome.parsed.ok
    /\ OutcomeFallback

\* a plan over a limit was re-raised and the handler answered success=false
C18_WitnessHandler ==
    /\ HandlePlanDone
    /\ PlanParsed
    /\ ~ret.val.success
    /\ log = <<"plan_security_violation">>

\* C19: when the LLM was called and it raised, returned nothing or an empty
\* content, or its content was rejected by the parser, generate_plan
\* returns the fallback plan and raises nothing.
C19_ProviderFailureAbsorbed ==
    (GeneratePlanDone /\ calls.llm = 1 /\ ~PlanParsed) =>
        /\ ret.ok
        /\ ret.val = create_fallback_plan

-----------------------------------------------------------------------------
(* Chat handler, chat_handler.py:6-31.  extract_known_fields and           *)
(* is_any_goal_ready are collaborators whose results are inputs; the       *)
(* profile store is get_user_profile and update_user_profile.              *)

EP_PROFILE_UPDATE == "update_user_profile"

\* the store gives the profile it holds
get_user_profile(s) == s.profile

\* the store holds the profile it was given last
update_user_profile(s, profile) ==
    [profile |-> profile,
     requests |-> Append(s.requests,
                         [endpoint |-> EP_PROFILE_UPDATE, data |-> profile, delivered |-> TRUE])]

\* d[key] = value
SetItem(d, key, value) == PyDict(AsTuple(DictSet(d.items, key, value), Len(DictSet(d.items, key, value))))

\* d.update(updates)
RECURSIVE DictUpdate(_, _)
DictUpdate(d, items) ==
    IF Len(items) = 0 THEN d
    ELSE DictUpdate(SetItem(d, Head(items).k, Head(items).v), Tail(items))

\* iter(value), what a for loop or dict.update goes through: the elements
\* of a list or tuple, the keys of a dict, the characters of a str, the
\* (name, value) pairs of a pydantic model; TypeError for None, a number or
\* a bool
IterElems(v) ==
    CASE v.kind \in {"list", "tuple"} -> Ok(v.elems)
      [] v.kind = "dict" -> Ok(AsTuple([i \in 1..Len(v.items) |-> v.items[i].k], Len(v.items)))
      [] v.kind = "str" -> Ok(AsTuple([i \in 1..Len(v.str) |-> PyStr(<<v.str[i]>>)], Len(v.str)))
      [] v.kind = "object" ->
           Ok(AsTuple([i \in 1..Len(v.attrs) |-> PyTuple(<<v.attrs[i].k, v.attrs[i].v>>)],
                      Len(v.attrs)))
      [] OTHER -> Raised("TypeError")

\* x[key] for a str key: the value of a dict that has the key, KeyError for
\* a dict without it, TypeError for anything that is no dict
Subscript(x, key) ==
    IF x.kind # "dict" THEN Raised("TypeError")
    ELSE IF HasKey(x, key) THEN Ok(DictGet(x, key))
    ELSE Raised("KeyError")

RECURSIVE TitleScan(_, _)
\* line 19, next((x for x in goals if x["title"] == g["title"]), None): for
\* each stored goal in turn its title is read, then that of g, and the scan
\* stops at the first equal title.  Whether a goal was found (a found goal
\* is a dict with a title, so it is truthy), or the exception.
TitleScan(goals, g) ==
    IF Len(goals) = 0 THEN Ok(FALSE)
    ELSE IF ~Subscript(Head(goals), S_TITLE).ok THEN Subscript(Head(goals), S_TITLE)
    ELSE IF ~Subscript(g, S_TITLE).ok THEN Subscript(g, S_TITLE)
    ELSE IF PyEq(Subscript(Head(goals), S_TITLE).val, Subscript(g, S_TITLE).val) THEN Ok(TRUE)
    ELSE TitleScan(Tail(goals), g)

RECURSIVE MergeGoals(_, _)
\* lines 18-21: profile["goals"] after the loop over the incoming goals, or
\* the exception.  The stored value is iterated for every incoming goal
\* (TypeError if it cannot be) and must have append (a list) when a goal is
\* new.
MergeGoals(goals, updates) ==
    IF Len(updates) = 0 THEN Ok(goals)
    ELSE IF ~IterElems(goals).ok THEN Raised("TypeError")
    ELSE Only({IF ~found.ok THEN found
               ELSE IF found.val THEN MergeGoals(goals, Tail(updates))
               ELSE IF goals.kind # "list" THEN Raised("AttributeError")
               ELSE MergeGoals(PyList(Append(goals.elems, Head(updates))), Tail(updates)) :
                 found \in {TitleScan(IterElems(goals).val, Head(updates))}})

RECURSIVE Hashable(_)
\* hash(value) is defined: not for a list, a dict or a pydantic model, and
\* for a tuple when it is for its elements
Hashable(v) ==
    CASE v.kind \in {"list", "dict", "object"} -> FALSE
      [] v.kind = "tuple" -> \A i \in 1..Len(v.elems) : Hashable(v.elems[i])
      [] OTHER -> TRUE

RECURSIVE UpdatePairs(_)
\* dict.update(sequence): every element is iterated and must have two
\* elements, a hashable key and a value
UpdatePairs(elems) ==
    IF Len(elems) = 0 THEN Ok(<<>>)
    ELSE Only({IF ~e.ok THEN Raised("TypeError")
               ELSE IF Len(e.val) # 2 THEN Raised("ValueError")
               ELSE IF ~Hashable(e.val[1]) THEN Raised("TypeError")
               ELSE Only({IF rest.ok THEN Ok(<<Item(e.val[1], e.val[2])>> \o rest.val)
                          ELSE rest :
                            rest \in {UpdatePairs(Tail(elems))}}) :
                 e \in {IterElems(Head(elems))}})

\* lines 16-23: the profile after one section of new_data, or the exception
MergeSection(profile, section, updates) ==
    IF profile.kind # "dict"
    THEN \* setdefault
         Raised("AttributeError")
    ELSE IF section = S_GOALS
    THEN LET with_goals == IF HasKey(profile, S_GOALS) THEN profile
                           ELSE SetItem(profile, S_GOALS, PyList(<<>>))
             goals == DictGet(with_goals, S_GOALS)
         IN IF ~IterElems(updates).ok THEN Raised("TypeError")
            ELSE Only({IF merged.ok THEN Ok(SetItem(with_goals, S_GOALS, merged.val))
                       ELSE merged :
                         merged \in {MergeGoals(goals, IterElems(updates).val)}})
    ELSE LET with_section == IF HasKey(profile, section) THEN profile
                             ELSE SetItem(profile, section, PyDict(<<>>))
             current == DictGet(with_section, section)
         IN IF current.kind # "dict" THEN Raised("AttributeError")
            ELSE IF updates.kind = "dict"
            THEN Ok(SetItem(with_section, section, DictUpdate(current, updates.items)))
            ELSE IF ~IterElems(updates).ok THEN Raised("TypeError")
            ELSE Only({IF pairs.ok
                       THEN Ok(SetItem(with_section, section, DictUpdate(current, pairs.val)))
                       ELSE pairs :
                         pairs \in {UpdatePairs(IterElems(updates).val)}})

RECURSIVE MergeNewData(_, _)
\* lines 15-23: the loop over the sections of new_data
MergeNewData(profile, sections) ==
    IF Len(sections) = 0 THEN Ok(profile)
    ELSE Only({IF merged.ok THEN MergeNewData(merged.val, Tail(sections)) ELSE merged :
                 merged \in {MergeSection(profile, Head(sections).k, Head(sections).v)}})

\* line 29; "U+2705" and "U+2019" stand for one character each
READY_SUFFIX ==
    <<"\n","\n","U+2705">> \o <<" ","I"," ","t","h","i","n","k"," ","y","o","u">> \o <<"U+2019">>
    \o <<"r","e"," ","r","e","a","d","y"," ","t","o"," ","g","e","n","e","r","a","t","e"," ","a"," ","p","l","a","n"," ","f","o","r"," ","o","n","e"," ","o","f"," ","y","o","u","r"," ","g","o","a","l","s","!">>

\* what the handler did: returned or raised, and the store after it
Handled(r, s) == [ret |-> r, store |-> s]

\* lines 13-31 for the profile read at line 7, against the store as it is
\* when line 25 writes: new_data is the result of extract_known_fields,
\* update_ok whether update_user_profile returns, ready the result of
\* is_any_goal_ready.  A profile that is no dict has neither setdefault
\* (lines 17, 23) nor get (line 28).
handle_chat_merge(s, profile, response, new_data, update_ok, ready) ==
    LET reply == IF ready THEN PyStr(response \o READY_SUFFIX) ELSE PyStr(response)
    IN IF ~Truthy(new_data)
       THEN IF profile.kind # "dict" THEN Handled(Raised("AttributeError"), s)
            ELSE Handled(Ok(reply), s)
       ELSE IF new_data.kind # "dict" THEN Handled(Raised("AttributeError"), s)
       ELSE Only({IF ~merged.ok THEN Handled(merged, s)
                  ELSE IF ~update_ok THEN Handled(Raised("Exception"), s)
                  ELSE Handled(Ok(reply), update_user_profile(s, merged.val)) :
                    merged \in {MergeNewData(profile, new_data.items)}})

\* line 7: get_user_profile(user_id) or {}
ProfileRead(s) == IF Truthy(get_user_profile(s)) THEN get_user_profile(s) ELSE PyDict(<<>>)

\* line 10, chat_chain.run(message), for a chain object that has no
\* attribute run: chat_model.py:129 builds chat_chain as prompt | llm |
\* parser, a RunnableSequence, whose class is not part of the repository
ChainWithoutRun == [kind |-> "no_attribute"]

\* handle_chat_message, lines 6-31, run from its first line to its last
\* with no other call in between.  run is the outcome of chat_chain.run:
\* it returns the response, raises, or is not there to be called.
handle_chat_message(s, run, new_data, update_ok, ready) ==
    IF run = ChainWithoutRun THEN Handled(Raised("AttributeError"), s)
    ELSE IF run.kind # "result" THEN Handled(Raised("Exception"), s)
    ELSE handle_chat_merge(s, ProfileRead(s), run.val, new_data, update_ok, ready)

GOAL_HOUSE_PERSONAL == GoalDict(T_HOUSE, C_PERSONAL)
GOAL_RETIRE == GoalDict(T_RETIRE, C_FINANCIAL)
GOAL_RETIRE_PERSONAL == GoalDict(T_RETIRE, C_PERSONAL)
GOAL_CAR == GoalDict(T_CAR, C_FINANCIAL)

\* what extract_known_fields returns: nothing, or sections with their updates
NewDatas ==
    {PyNone, PyDict(<<>>),
     PyDict(<<Item(S_GOALS, PyList(<<>>))>>),
     PyDict(<<Item(S_GOALS, PyList(<<GoalDict(T_HOUSE, C_FINANCIAL)>>))>>),
     PyDict(<<Item(S_GOALS, PyList(<<GOAL_HOUSE_PERSONAL, GOAL_CAR>>))>>),
     PyDict(<<Item(S_GOALS, PyList(<<GOAL_RETIRE, GOAL_RETIRE_PERSONAL>>))>>),
     PyDict(<<Item(S_GOALS, PyList(<<GOAL_CAR, GOAL_RETIRE_PERSONAL, GOAL_CAR>>))>>),
     PyDict(<<Item(S_PERSONAL_INFO, PROFILE_A)>>),
     PyDict(<<Item(S_PERSONAL_INFO, PROFILE_A),
              Item(S_GOALS, PyList(<<GOAL_RETIRE>>)),
              Item(S_FINANCIAL_INFO, PROFILE_B)>>),
     \* values of other types: a tuple of goals, no goals, an empty update
     PyDict(<<Item(S_GOALS, PyTuple(<<GOAL_CAR>>))>>),
     PyDict(<<Item(S_GOALS, PyNone)>>),
     PyDict(<<Item(S_PERSONAL_INFO, PyList(<<>>))>>),
     \* titles that are equal and not the same value: [1] and [1.0]
     PyDict(<<Item(S_GOALS, PyList(<<GoalDict(PyList(<<PyInt(1)>>), C_FINANCIAL),
                                     GoalDict(PyList(<<PyFloat(1)>>), C_PERSONAL)>>))>>)}

\* what the collaborators do in one call: chat_chain.run, update_user_profile
\* and is_any_goal_ready
HandlerWorlds ==
    {[run |-> LLMReturn(M_REPLY), update_ok |-> TRUE, ready |-> FALSE],
     [run |-> LLMReturn(M_REPLY), update_ok |-> TRUE, ready |-> TRUE],
     [run |-> LLMReturn(M_REPLY), update_ok |-> FALSE, ready |-> FALSE],
     [run |-> LLMError, update_ok |-> TRUE, ready |-> FALSE],
     [run |-> ChainWithoutRun, update_ok |-> TRUE, ready |-> FALSE]}

\* profiles the store holds at the start: none, empty, and profiles whose
\* goals have distinct titles
StoredProfiles ==
    {PyNone, PyDict(<<>>),
     PyDict(<<Item(S_GOALS, PyList(<<GoalDict(T_HOUSE, C_FINANCIAL)>>))>>),
     PyDict(<<Item(S_PERSONAL_INFO, PROFILE_A),
              Item(S_GOALS, PyList(<<GOAL_RETIRE_PERSONAL, GoalDict(T_HOUSE, C_FINANCIAL)>>))>>)}

InitChatHandler ==
    /\ pc = "idle"
    /\ op = "none"
    /\ args = NoValue
    /\ ret = NoValue
    /\ log = <<>>
    /\ calls = NoCalls
    /\ routing_decision = NoValue
    /\ general_response = NoValue
    /\ full_response = NoValue
    /\ llm = NoLLM
    /\ store \in {[profile |-> p, requests |-> <<>>] : p \in StoredProfiles}
    /\ twin = NoValue
    /\ handlers = NoHandlers

\* what a finished call leaves in args: its inputs, the profile it read at
\* line 7 and the profile the store held when it wrote or ended
CallRecord(h, s) ==
    [new_data |-> h.new_data, run |-> h.run, update_ok |-> h.update_ok, ready |-> h.ready,
     profile |-> h.profile, stored |-> get_user_profile(s)]

\* line 7: a call starts and reads the profile.  The calls of MaxMerges
\* callers for one user run side by side; nothing in the handler keeps a
\* second call from starting while the first one waits for the LLM.
HandleChatMessage ==
    /\ \E t \in Callers, new_data \in NewDatas, w \in HandlerWorlds :
          /\ handlers[t].pc = "idle"
          /\ handlers' = [handlers EXCEPT
                            ![t] = [pc |-> "read", profile |-> ProfileRead(store),
                                    new_data |-> new_data, run |-> w.run,
                                    update_ok |-> w.update_ok, ready |-> w.ready]]
    /\ op' = "handle_chat_message"
    /\ UNCHANGED <<twin, pc, args, ret, log, calls, routing_decision, general_response,
                   full_response, llm, store>>

\* line 10: chat_chain.run; an exception of it ends the call, and so does
\* the lookup of run on a chain object that has none, before any LLM is
\* called
HandleChatRun ==
    /\ \E t \in Callers :
          /\ handlers[t].pc = "read"
          /\ IF handlers[t].run = ChainWithoutRun
             THEN UNCHANGED <<llm, calls>>
             ELSE /\ llm' = [llm EXCEPT !.chat = handlers[t].run]
                  /\ calls' = [calls EXCEPT !.llm = @ + 1]
          /\ IF handlers[t].run.kind = "result"
             THEN /\ handlers' = [handlers EXCEPT ![t].pc = "ran"]
                  /\ UNCHANGED <<pc, args, ret>>
             ELSE /\ handlers' = [handlers EXCEPT ![t].pc = "done"]
                  /\ pc' = "done"
                  /\ args' = CallRecord(handlers[t], store)
                  /\ ret' = handle_chat_message(store, handlers[t].run, handlers[t].new_data,
                                                handlers[t].update_ok, handlers[t].ready).ret
    /\ UNCHANGED <<twin, op, log, routing_decision, general_response, full_response, store>>

\* lines 13-31: the merge into the profile read at line 7, the write of the
\* whole profile, and the return
HandleChatMerge ==
    /\ \E t \in Callers :
          /\ handlers[t].pc = "ran"
          /\ \E r \in {handle_chat_merge(store, handlers[t].profile, handlers[t].run.val,
                                         handlers[t].new_data, handlers[t].update_ok,
                                         handlers[t].ready)} :
                /\ ret' = r.ret
                /\ store' = r.store
          /\ args' = CallRecord(handlers[t], store)
          /\ handlers' = [handlers EXCEPT ![t].pc = "done"]
    /\ pc' = "done"
    /\ UNCHANGED <<twin, op, log, calls, routing_decision, general_response, full_response,
                   llm>>

SpecChatHandler ==
    InitChatHandler /\ [][HandleChatMessage \/ HandleChatRun \/ HandleChatMerge]_vars

-----------------------------------------------------------------------------
(* C20 *)

\* a call has ended: args, ret and the store are those it left
ChatHandled == \E t \in Callers : handlers[t].pc = "done"

\* the goals of a profile
ProfileGoals(profile) ==
    IF profile.kind = "dict" /\ HasKey(profile, S_GOALS)
    THEN DictGet(profile, S_GOALS).elems
    ELSE <<>>

\* the goals a call brought
IncomingGoals ==
    IF /\ args.new_data.kind = "dict"
       /\ DictGet(args.new_data, S_GOALS).kind \in {"list", "tuple"}
    THEN DictGet(args.new_data, S_GOALS).elems
    ELSE <<>>

\* no two goals share a title, titles compared as line 19 compares them
DistinctTitles(goals) ==
    \A i, j \in 1..Len(goals) :
       i # j => ~PyEq(DictGet(goals[i], S_TITLE), DictGet(goals[j], S_TITLE))

\* the incoming goals whose title no stored goal and no earlier incoming
\* goal has
FreshGoals(stored, incoming) ==
    {i \in 1..Len(incoming) :
       /\ \A k \in 1..Len(stored) :
             ~PyEq(DictGet(stored[k], S_TITLE), DictGet(incoming[i], S_TITLE))
       /\ \A j \in 1..(i - 1) :
             ~PyEq(DictGet(incoming[j], S_TITLE), DictGet(incoming[i], S_TITLE))}

\* after is before followed by exactly the fresh incoming goals, in order
AppendedFresh(before, incoming, after) ==
    /\ Len(after) = Len(before) + Cardinality(FreshGoals(before, incoming))
    /\ SubSeq(after, 1, Len(before)) = before
    /\ \A i \in FreshGoals(before, incoming) :
          after[Len(before) + Cardinality({j \in FreshGoals(before, incoming) : j <= i})]
             = incoming[i]

\* C20: after any sequence of chat-handler calls from a profile with
\* distinct goal titles, no two goals of the stored profile share a title;
\* a call that merged leaves the goals the store held as they were, in
\* place, and appends exactly the incoming goals whose title no stored goal
\* and no goal appended earlier in the merge has; a call that did not merge
\* leaves the goals alone.
C20_AppendOnlyDedup ==
    /\ DistinctTitles(ProfileGoals(store.profile))
    /\ ChatHandled =>
          IF ret.ok /\ Truthy(args.new_data)
          THEN AppendedFresh(ProfileGoals(args.stored), IncomingGoals,
                             ProfileGoals(store.profile))
          ELSE ProfileGoals(store.profile) = ProfileGoals(args.stored)

\* what holds of every call, overlapped or not: the goals it writes are
\* those of the profile it read at line 7, in place, followed by the
\* incoming goals that are new to them; titles stay distinct
AppendOnlyFromProfileRead ==
    /\ DistinctTitles(ProfileGoals(store.profile))
    /\ ChatHandled =>
          IF ret.ok /\ Truthy(args.new_data)
          THEN AppendedFresh(ProfileGoals(args.profile), IncomingGoals,
                             ProfileGoals(store.profile))
          ELSE ProfileGoals(store.profile) = ProfileGoals(args.stored)

\* no call wrote between the read and the write of the call that ended
NotOverlapped == ProfileRead([profile |-> args.stored]) = args.profile

\* calls that do not overlap are append-only
AppendOnlyWhenNotOverlapped == (ChatHandled /\ NotOverlapped) => C20_AppendOnlyDedup

\* a merge into two stored goals of three incoming goals, one with a stored
\* title and two with the same new title: one goal was appended
C20_Witness ==
    /\ ChatHandled
    /\ ret.ok
    /\ NotOverlapped
    /\ Len(ProfileGoals(args.profile)) = 2
    /\ Len(IncomingGoals) = 3
    /\ Cardinality(FreshGoals(ProfileGoals(args.profile), IncomingGoals)) = 1
    /\ Len(ProfileGoals(store.profile)) = 3
    /\ calls.llm = 2

\* of two goals whose titles [1] and [1.0] are equal and not the same value
\* the first was appended and the second was not
C20_WitnessEqualTitles ==
    /\ ChatHandled
    /\ ret.ok
    /\ NotOverlapped
    /\ Len(IncomingGoals) = 2
    /\ DictGet(IncomingGoals[1], S_TITLE) = PyList(<<PyInt(1)>>)
    /\ DictGet(IncomingGoals[2], S_TITLE) = PyList(<<PyFloat(1)>>)
    /\ Len(ProfileGoals(store.profile)) = Len(ProfileGoals(args.stored)) + 1
    /\ ProfileGoals(store.profile)[Len(ProfileGoals(store.profile))] = IncomingGoals[1]

\* a call that brought a goal with a new title ended at line 10 on a chain
\* object without run: nothing was merged and no LLM was called
C20_WitnessNoRun ==
    /\ ChatHandled
    /\ args.run = ChainWithoutRun
    /\ ret = Raised("AttributeError")
    /\ Cardinality(FreshGoals(ProfileGoals(args.stored), IncomingGoals)) > 0
    /\ ProfileGoals(store.profile) = ProfileGoals(args.stored)
    /\ calls.llm = 0

\* a lost update: the call wrote the goals of the profile it had read, and
\* a goal another call had stored meanwhile is gone
C20_WitnessLostUpdate ==
    /\ ChatHandled
    /\ ret.ok
    /\ Truthy(args.new_data)
    /\ Len(ProfileGoals(args.stored)) > 0
    /\ Len(ProfileGoals(args.profile)) = 0
    /\ \E i \in 1..Len(ProfileGoals(args.stored)) :
          \A j \in 1..Len(ProfileGoals(store.profile)) :
             ProfileGoals(store.profile)[j] # ProfileGoals(args.stored)[i]

-----------------------------------------------------------------------------
(* Failure paths of the five components: one call of the Router, of the    *)
(* General Responder, of the Personalized Responder or of the Plan         *)
(* Generator, or one invocation of the Orchestrator.                       *)

SpecFailures ==
    Init /\ [][CallRoute \/ CallGeneralAdvice \/ CallSecureChat \/ CallGeneratePlan \/ Next]_vars

\* the event types of the `except SecurityViolationError` handlers
SecurityEvents ==
    {"router_security_violation", "general_chat_security_violation",
     "chat_security_violation", "plan_security_violation"}

\* the event types of the `except Exception` handlers
ErrorEvents ==
    {"router_error", "general_chat_error", "chat_error", "plan_generation_error",
     "smart_chat_error"}

\* the failure events of the log, in the order they were recorded
FailureEvents == SelectSeq(log, LAMBDA e : e \in SecurityEvents \cup ErrorEvents)

\* the event a component owes for a failure of this kind
Expected(kind, security_event, error_event) ==
    IF kind = "security" THEN <<security_event>>
    ELSE IF kind = "error" THEN <<error_event>>
    ELSE <<>>

\* how the Router failed in the call under way, if it ran
RouterFailure ==
    IF calls.router = 0 THEN "none"
    ELSE IF UnsafeInput(args.input_text) THEN "security"
    ELSE IF llm.router.kind # "result" THEN "error"
    ELSE "none"

\* how the General Responder failed, if it ran: the message was refused, or
\* the chain raised or gave a content that is no text
GeneralFailure ==
    IF calls.general = 0 THEN "none"
    ELSE IF UnsafeInput(args.input_text) THEN "security"
    ELSE IF llm.general.kind # "result" \/ llm.general.val.kind # "str" THEN "error"
    ELSE "none"

\* the chain's result is refused: it has no message, or a domain validator
\* raises on its personalInfo or financialInfo
ChatRefused ==
    /\ llm.chat.kind = "result"
    /\ \/ ~HasAttr(llm.chat.val, "message")
       \/ /\ HasAttr(llm.chat.val, "message")
          /\ \/ /\ Truthy(llm.chat.val.personalInfo)
                /\ ~validate_personal_info(llm.chat.val.personalInfo).ok
             \/ /\ Truthy(llm.chat.val.financialInfo)
                /\ ~validate_financial_data(llm.chat.val.financialInfo).ok

\* how the Personalized Responder failed, if it ran
ChatFailure ==
    IF calls.personalized = 0 THEN "none"
    ELSE IF UnsafeInput(args.input_text) \/ ChatRefused THEN "security"
    ELSE IF llm.chat.kind # "result" THEN "error"
    ELSE "none"

\* how the Plan Generator ended: SecurityViolation raised again, the
\* fallback plan in place of a plan the chain did not deliver, or the plan
PlanFailure ==
    IF op # "generate_plan" THEN "none"
    ELSE IF ~ret.ok THEN "security"
    ELSE IF ~PlanParsed THEN "error"
    ELSE "none"

\* the Orchestrator's own handler answered: the invocation ended before the
\* Router was reached
HandlerFailure ==
    IF op = "smart_chat_invoke" /\ calls.router = 0 THEN "error" ELSE "none"

\* C21: every failure path is logged before it completes.  When a call of
\* the Router, the General Responder, the Personalized Responder, the Plan
\* Generator or the Orchestrator has ended, the failure events of its log
\* are exactly the events of the components that failed in it, in the order
\* they ran: the component's security-violation event when it answered a
\* SecurityViolation (or, for the Plan Generator, raised it again), its
\* error event when it answered any other failure, and no failure event when
\* nothing failed; no event type stands for both kinds.
C21_FailuresLogged ==
    /\ SecurityEvents \cap ErrorEvents = {}
    /\ (pc = "done" /\ op \in {"route_chat_message", "get_general_advice", "secure_chat_invoke",
                               "generate_plan", "smart_chat_invoke"}) =>
          FailureEvents =
              Expected(HandlerFailure, "smart_chat_error", "smart_chat_error")
              \o Expected(RouterFailure, "router_security_violation", "router_error")
              \o Expected(GeneralFailure, "general_chat_security_violation", "general_chat_error")
              \o Expected(ChatFailure, "chat_security_violation", "chat_error")
              \o Expected(PlanFailure, "plan_security_violation", "plan_generation_error")

\* an invocation of the Orchestrator in which the Router's chain failed and
\* the Personalized Responder then refused the result of its own chain: both
\* events are in the log, each of its kind
C21_Witness ==
    /\ SmartChatDone
    /\ RouterFailure = "error"
    /\ ChatFailure = "security"
    /\ ret.val.message = SAFE_FALLBACK_MESSAGE
    /\ log = <<"chat_routing_start", "router_error", "chat_using_full_context",
               "chat_security_violation">>

\* the Plan Generator raised SecurityViolation again for a plan of 11 steps,
\* after logging it
C21_WitnessReraised ==
    /\ GeneratePlanDone
    /\ PlanParsed
    /\ IsViolation(ret)
    /\ log = <<"plan_security_violation">>

\* the Orchestrator's handler answered a message that has no length
C21_WitnessHandler ==
    /\ SmartChatDone
    /\ HandlerFailure = "error"
    /\ ret.val = FallbackResponse
    /\ log = <<"smart_chat_error">>

-----------------------------------------------------------------------------
(* Further properties of the Orchestrator, checked under Spec.             *)

\* the message of the invocation under way is a text that fails
\* sanitize_string(input_text, MAX_INPUT_LENGTH)
UnsafeTextInvocation ==
    /\ op = "smart_chat_invoke"
    /\ args.input_text.kind = "str"
    /\ UnsafeInput(args.input_text)

\* the response made of the Router's apology
RouterApologyResponse ==
    [message |-> ROUTER_SAFE_RESPONSE,
     personalInfo |-> PyNone,
     financialInfo |-> PyNone,
     goals |-> PyNone,
     used_user_data |-> FALSE]

\* C22: unsafe input never reaches a responder.  At every point of a
\* smart_chat_invoke call whose message is a text that fails sanitization,
\* with or without a user_profile, neither the General nor the Personalized
\* Responder has been or is about to be called and no LLM call has been
\* made; when the call ends it returns the Router's apology with
\* used_user_data = False and no extraction.
C22_UnsafeNeverReachesResponder ==
    UnsafeTextInvocation =>
        /\ pc \notin {"general", "personalized"}
        /\ calls.general = 0
        /\ calls.personalized = 0
        /\ calls.llm = 0
        /\ llm = NoLLM
        /\ pc = "done" => ret = Ok(RouterApologyResponse)

\* a message with a bearer token, sent with a profile, was answered with the
\* Router's apology
C22_Witness ==
    /\ SmartChatDone
    /\ UnsafeTextInvocation
    /\ args.input_text = PyStr(<<"B","e","a","r","e","r"," ","a","b","c","1","2","3">>)
    /\ args.user_profile = PROFILE_A
    /\ calls.router = 1
    /\ ret.val.message = ROUTER_SAFE_RESPONSE

\* a message of 2001 characters, sent without a profile, was answered with
\* the Router's apology
C22_WitnessTooLong ==
    /\ SmartChatDone
    /\ UnsafeTextInvocation
    /\ Len(args.input_text.str) = MAX_INPUT_LENGTH + 1
    /\ args.user_profile = PyNone
    /\ ret.val.message = ROUTER_SAFE_RESPONSE

\* the response carries no extraction
NoExtractionReturned(response) ==
    /\ response.personalInfo = PyNone
    /\ response.financialInfo = PyNone
    /\ response.goals = PyNone

\* C23: in every response smart_chat_invoke returns, used_user_data = False
\* implies that personalInfo, financialInfo and goals are all None, so that
\* an extraction is only returned together with used_user_data = True; and
\* used_user_data is True exactly when the Personalized Responder was called
\* in that invocation.
C23_ExtractionOnlyWithUserData ==
    SmartChatDone =>
        /\ ret.ok
        /\ ~ret.val.used_user_data => NoExtractionReturned(ret.val)
        /\ ~NoExtractionReturned(ret.val) => ret.val.used_user_data
        /\ ret.val.used_user_data <=> calls.personalized = 1

\* the Personalized Responder's extraction of personalInfo and financialInfo
\* was returned with used_user_data = True
C23_Witness ==
    /\ SmartChatDone
    /\ calls.personalized = 1
    /\ ret.val.used_user_data
    /\ ret.val.personalInfo.kind = "dict"
    /\ ret.val.financialInfo.kind = "dict"
    /\ ret.val.goals = PyNone

\* the General Responder answered: used_user_data = False and no extraction
C23_WitnessGeneral ==
    /\ SmartChatDone
    /\ calls.general = 1
    /\ llm.general.kind = "result"
    /\ ~ret.val.used_user_data
    /\ NoExtractionReturned(ret.val)

\* the responders called so far in the invocation under way
RespondersCalled == calls.general + calls.personalized

\* the order of the steps within one invocation, once the Router is reached:
\* no responder before the Router, at most one responder, at most two LLM
\* calls, and no response while a responder is still to return
OrderedOnceRouted ==
    /\ calls.router <= 1
    /\ (pc \in {"general", "personalized"} \/ RespondersCalled > 0) => calls.router = 1
    /\ RespondersCalled <= 1
    /\ calls.llm <= 2
    /\ calls.llm <= calls.router + RespondersCalled
    /\ pc \in {"route", "dispatch", "general", "personalized"} => ret = NoValue
    /\ (pc = "done" /\ calls.general = 1) =>
          ret.val.message = general_response.message
    /\ (pc = "done" /\ calls.personalized = 1) =>
          ret.val.message = full_response.message

\* C24: within one smart_chat_invoke call the Router is called exactly once
\* and before any responder; at most one of the General and the Personalized
\* Responder is called, never both; so at most two LLM calls are made; and
\* the response is returned only after the responder that was called has
\* returned.
C24_Ordering ==
    op = "smart_chat_invoke" =>
        /\ OrderedOnceRouted
        /\ pc = "done" => calls.router = 1

\* what holds of the code: the order above, with the Router called exactly
\* once in every invocation whose message has a length and not at all in the
\* others, which end in the handler before the Router is reached
C24_OrderingOfMessagesWithLength ==
    op = "smart_chat_invoke" =>
        /\ OrderedOnceRouted
        /\ pc = "done" => (calls.router = 1 <=> HasLen(args.input_text))

\* two LLM calls were made, by the Router and then by the Personalized
\* Responder, before the response was returned
C24_WitnessTwoCalls ==
    /\ SmartChatDone
    /\ calls.router = 1
    /\ calls.personalized = 1
    /\ calls.general = 0
    /\ calls.llm = 2
    /\ llm.router.kind = "result"
    /\ llm.chat.kind = "result"

\* an invocation ended without a call of the Router
C24_WitnessNotRouted ==
    /\ SmartChatDone
    /\ calls.router = 0
    /\ args.input_text = PyNone
    /\ ret.val.message = SMART_CHAT_FALLBACK

-----------------------------------------------------------------------------
(* The score and the persistence gate together: calls of the scorer and    *)
(* whole conversation turns.                                               *)

SpecGate ==
    Init /\ [][CallCalculateConfidence \/ CallCalculateConfidenceAgain
               \/ CallProcessConversation \/ ConversationInvoke
               \/ ConversationRequest \/ ConversationReturn]_vars

\* a section that adds to the score: it is non-empty and holds a value that
\* counts
InfoContributes(info) == Truthy(info) /\ TruthyValues(info) > 0

\* the goals add to the score: one of them has a title and a category
GoalsContribute(goals) ==
    /\ Truthy(goals)
    /\ \A i \in 1..Len(goals.elems) : goals.elems[i].kind = "dict"
    /\ GoalsQuality(goals) > 0

\* how many of personalInfo, financialInfo and goals add to the score
Contributing(d) ==
    (IF InfoContributes(d.personalInfo) THEN 1 ELSE 0)
    + (IF InfoContributes(d.financialInfo) THEN 1 ELSE 0)
    + (IF GoalsContribute(d.goals) THEN 1 ELSE 0)

\* how many of the three were extracted at all
Extracted(d) ==
    (IF Truthy(d.personalInfo) THEN 1 ELSE 0)
    + (IF Truthy(d.financialInfo) THEN 1 ELSE 0)
    + (IF Truthy(d.goals) THEN 1 ELSE 0)

\* the extraction of the turn under way
TurnData ==
    ExtractedData(args.ai.val.personalInfo, args.ai.val.financialInfo, args.ai.val.goals)

\* C25: no single category passes the persistence gate.  A score above 0.5
\* is computed only for data in which at least two of personalInfo,
\* financialInfo and goals contribute, one category alone scoring at most
\* 0.4; and a conversation turn that extracts one category only, however
\* complete, issues no write to the profile store and reports data_saved
\* False.
C25_NoSingleCategoryPasses ==
    /\ (op = "_calculate_confidence" /\ pc \in {"scored", "done"} /\ ret.ok) =>
          /\ RatLess(Rat(1, 2), ret.val) => Contributing(args.extracted_data) >= 2
          /\ Contributing(args.extracted_data) <= 1 => RatLeq(ret.val, Rat(4, 10))
    /\ (ConversationDone /\ args.ai.kind = "result") =>
          /\ WriteIssued => Contributing(TurnData) >= 2
          /\ Extracted(TurnData) <= 1 =>
                /\ ~WriteIssued
                /\ ~ret.val.data_saved

\* a turn that extracted a complete financialInfo and nothing else scored
\* 0.4 and wrote nothing
C25_Witness ==
    /\ ConversationDone
    /\ args.ai.kind = "result"
    /\ TurnData.personalInfo = PyNone
    /\ TurnData.goals = PyNone
    /\ TurnData.financialInfo.kind = "dict"
    /\ TruthyValues(TurnData.financialInfo) = 4
    /\ ret.val.confidence = Rat(4, 10)
    /\ ~ret.val.data_saved
    /\ ~WriteIssued

\* the scorer gave 0.3 to goals alone, all with a title and a category
C25_WitnessGoalsAlone ==
    /\ op = "_calculate_confidence"
    /\ pc = "scored"
    /\ Extracted(args.extracted_data) = 1
    /\ GoalsContribute(args.extracted_data.goals)
    /\ ret = Ok(Rat(3, 10))

\* two categories passed the gate and were written
C25_WitnessTwoCategories ==
    /\ ConversationDone
    /\ args.ai.kind = "result"
    /\ Contributing(TurnData) = 2
    /\ WriteIssued
    /\ ret.val.data_saved

-----------------------------------------------------------------------------
(* The Orchestrator as a function of its inputs and of what its            *)
(* collaborators answer, smart_chat.py:43-96, and a finished invocation    *)
(* repeated with another profile.                                          *)

\* what one invocation did: what it returned, the events it logged, the
\* calls it made, what the chains it asked answered, and its three locals
Invocation(r, events, made, asked, decision, general, full) ==
    [ret |-> r, events |-> events, calls |-> made, llm |-> asked,
     routing_decision |-> decision, general_response |-> general,
     full_response |-> full]

\* the outcome of a chain that was asked
Asked(llm_calls, outcome) == IF llm_calls > 0 THEN outcome ELSE NotCalled

\* smart_chat_invoke, smart_chat.py:25-96, as a function of the message,
\* the profile and what the three chains answer
smart_chat_invoke(input_text, user_profile, router_outcome, general_outcome, chat_outcome) ==
    IF ~HasLen(input_text)
    THEN Invocation(SmartChatExcept("TypeError"), <<"smart_chat_error">>, NoCalls, NoLLM,
                    NoValue, NoValue, NoValue)
    ELSE Only({
      LET decision == routed.val
          made == [NoCalls EXCEPT !.router = 1, !.llm = routed.llm_calls]
          asked == [NoLLM EXCEPT !.router = Asked(routed.llm_calls, router_outcome)]
          started == <<"chat_routing_start">> \o routed.events
      IN IF ~decision.needs_user_data
         THEN IF UseSimpleResponse(decision)
              THEN Invocation(Ok(SmartChatResponse(decision.simple_response,
                                                   PyNone, PyNone, PyNone, FALSE)),
                              Append(started, "chat_using_general"), made, asked,
                              decision, NoValue, NoValue)
              ELSE Only({Invocation(Ok(SmartChatResponse(g.val.message,
                                                         PyNone, PyNone, PyNone, FALSE)),
                                    Append(started, "chat_using_general") \o g.events,
                                    [made EXCEPT !.general = 1, !.llm = @ + g.llm_calls],
                                    [asked EXCEPT !.general = Asked(g.llm_calls, general_outcome)],
                                    decision, g.val, NoValue) :
                           g \in {get_general_advice(input_text, general_outcome)}})
         ELSE IF ProfileMissing(user_profile)
              THEN Invocation(Ok(SmartChatResponse(REQUEST_DETAILS_MESSAGE,
                                                   PyNone, PyNone, PyNone, FALSE)),
                              Append(started, "chat_using_full_context"), made, asked,
                              decision, NoValue, NoValue)
              ELSE Only({Invocation(Ok(SmartChatResponse(f.val.message, f.val.personalInfo,
                                                         f.val.financialInfo, f.val.goals,
                                                         TRUE)),
                                    Append(started, "chat_using_full_context") \o f.events,
                                    [made EXCEPT !.personalized = 1, !.llm = @ + f.llm_calls],
                                    [asked EXCEPT !.chat = Asked(f.llm_calls, chat_outcome)],
                                    decision, NoValue, f.val) :
                           f \in {secure_chat_invoke(input_text, chat_outcome)}}) :
        routed \in {route_chat_message(input_text, router_outcome)}})

\* the steps of an invocation do what the function says: for the message,
\* the profile and the answers of the chains that were asked, the response,
\* the events, the calls and the locals are those of smart_chat_invoke
StepsAgreeWithFunction ==
    (op = "smart_chat_invoke" /\ pc = "done" /\ twin = NoValue) =>
        smart_chat_invoke(args.input_text, args.user_profile, llm.router, llm.general,
                          llm.chat)
          = Invocation(ret, log, calls, llm, routing_decision, general_response,
                       full_response)

\* smart_chat.py:43-47 of a second invocation: the same message is sent
\* again with a profile of its own.  twin keeps what the first invocation
\* was given, what it returned and what its chains answered; the locals are
\* those of the new call, and the log and the call counts go on.  The second
\* invocation then takes the steps of the first: it waits for the Router,
\* dispatches, and waits for the responder.
SmartChatAgain ==
    /\ pc = "done"
    /\ op = "smart_chat_invoke"
    /\ twin = NoValue
    /\ \E user_profile \in Profiles :
          args' = [input_text |-> args.input_text, user_profile |-> user_profile]
    /\ twin' = [args |-> args, ret |-> ret, log |-> log, calls |-> calls, llm |-> llm]
    /\ IF HasLen(args.input_text)
       THEN /\ log' = Append(log, "chat_routing_start")
            /\ pc' = "route"
            /\ ret' = ret
       ELSE /\ log' = Append(log, "smart_chat_error")
            /\ pc' = "done"
            /\ ret' = SmartChatExcept("TypeError")
    /\ routing_decision' = NoValue
    /\ general_response' = NoValue
    /\ full_response' = NoValue
    /\ UNCHANGED <<handlers, store, op, calls, llm>>

SpecProfiles == Init /\ [][Next \/ SmartChatAgain]_vars

\* the second invocation has returned: args and ret are its own, twin.args
\* and twin.ret those of the first
Repeated == op = "smart_chat_invoke" /\ pc = "done" /\ twin # NoValue

\* a chain that both invocations asked answered both the same; llm holds
\* for each chain what it answered when it was asked last
SameAnswers ==
    /\ twin.llm.router # NotCalled => llm.router = twin.llm.router
    /\ twin.llm.general # NotCalled => llm.general = twin.llm.general
    /\ twin.llm.chat # NotCalled => llm.chat = twin.llm.chat

\* C26: the contents of user_profile never influence the response.  Two
\* smart_chat_invoke calls with the same message and the same answers of the
\* Router and of the LLM that differ only in which non-empty user_profile is
\* given return the same message, personalInfo, financialInfo, goals and
\* used_user_data: the profile only opens the personalized path and is not
\* handed to the Personalized Responder.
C26_ProfileContentsIgnored ==
    (Repeated /\ SameAnswers /\ Truthy(args.user_profile) /\ Truthy(twin.args.user_profile)) =>
        /\ ret.ok
        /\ twin.ret.ok
        /\ ret.val.message = twin.ret.val.message
        /\ ret.val.personalInfo = twin.ret.val.personalInfo
        /\ ret.val.financialInfo = twin.ret.val.financialInfo
        /\ ret.val.goals = twin.ret.val.goals
        /\ ret.val.used_user_data = twin.ret.val.used_user_data

\* two different profiles got the same personalized response with an
\* extraction, each from a call of its own to the Router and to the
\* Personalized Responder
C26_Witness ==
    /\ Repeated
    /\ SameAnswers
    /\ twin.args.user_profile = PROFILE_A
    /\ args.user_profile = PROFILE_B
    /\ twin.calls.personalized = 1
    /\ calls.personalized = 2
    /\ calls.router = 2
    /\ llm.chat.kind = "result"
    /\ ret.val.used_user_data
    /\ ret.val.personalInfo.kind = "dict"
    /\ ret = twin.ret
    /\ log = twin.log \o twin.log

\* the gate: the same message with and without a profile is answered by the
\* Personalized Responder and by the request for details
C26_WitnessGate ==
    /\ Repeated
    /\ SameAnswers
    /\ twin.args.user_profile = PROFILE_A
    /\ args.user_profile = PyNone
    /\ twin.ret.val.used_user_data
    /\ ret.val.message = REQUEST_DETAILS_MESSAGE
    /\ ~ret.val.used_user_data

\* the second invocation waits for the Personalized Responder: it has logged
\* its start and its routing and has called the Router, the first one's
\* response is still the last one returned
C26_WitnessSecondWaits ==
    /\ twin # NoValue
    /\ pc = "personalized"
    /\ calls.router = 2
    /\ calls.personalized = 1
    /\ Len(log) > Len(twin.log)
    /\ ret = twin.ret

\* the answers matter: with the same profile, a second invocation whose
\* Router answers otherwise returns another response
C26_WitnessOtherAnswer ==
    /\ Repeated
    /\ ~SameAnswers
    /\ args.user_profile = twin.args.user_profile
    /\ ret.val.message # twin.ret.val.message

====
